---- MODULE Spec2Model ----
(***************************************************************************)
(* Fee lifecycle engine of the school-management backend: fee structures,  *)
(* fee assignments, payments and the status derivation, as implemented in  *)
(* src/src/models/Fee.js, src/src/controllers/feeController.js and         *)
(* src/src/controllers/adminController.js.                                 *)
(*                                                                         *)
(* Every await on the database is one step of a request; the synchronous   *)
(* code between two awaits belongs to the step of the await that follows   *)
(* it.  Requests run in the slots of Procs and interleave at those steps.  *)
(***************************************************************************)
EXTENDS Integers, Sequences, FiniteSets, TLC

(***************************************************************************)
(* Bounds of the model.                                                    *)
(***************************************************************************)
MaxAssignments == 2
MaxPayments == 2
MaxNow == 81
MaxSummaryPayments == 1

Procs == {1, 2}
JsAmounts == -2 .. 4
Instants == 78 .. 82
Tenants == {"tA", "tB"}
Students == {"s1", "s2"}
NewStudentId == "s3"
NewClassId == "c3"
ClassIds == {"c1", "c2"}
StructureIds == <<"f1", "f2", "f3">>
NewStructureId == "f4"
Amounts == {-1, 0, 1, 2, 3}
DiscountAmounts == {0, 1, 3}
TickSteps == {72}

(***************************************************************************)
(* FEE_STATUS                                                              *)
(***************************************************************************)
PAID == "paid"
PENDING == "pending"
PARTIALLY_PAID == "partially_paid"
OVERDUE == "overdue"
CANCELLED == "cancelled"

(***************************************************************************)
(* Calendar.  An instant is a number of half days since 2024-01-01 00:00   *)
(* local time: even instants are midnights, odd instants are noons.        *)
(* Months are numbered 0..11 as in JavaScript.                             *)
(***************************************************************************)
Years == 2024 .. 2026
BaseYear == CHOOSE y \in Years : \A z \in Years : y <= z

IsLeap(y) == (y % 4 = 0 /\ y % 100 # 0) \/ y % 400 = 0

DaysInMonth(y, m) ==
  IF m = 1 THEN (IF IsLeap(y) THEN 29 ELSE 28)
  ELSE IF m \in {3, 5, 8, 10} THEN 30 ELSE 31

RECURSIVE DaysBeforeMonth(_, _)
DaysBeforeMonth(y, m) ==
  IF m = 0 THEN 0 ELSE DaysBeforeMonth(y, m - 1) + DaysInMonth(y, m - 1)

RECURSIVE DaysBeforeYear(_)
DaysBeforeYear(y) ==
  IF y <= BaseYear THEN 0 ELSE DaysBeforeYear(y - 1) + DaysBeforeMonth(y - 1, 12)

\* new Date(year, month, day): a month past December carries into the year,
\* a day past the end of the month carries into the next month.
NewDate(year, month, day) ==
  LET y == year + (month \div 12)
      m == month % 12
  IN  2 * (DaysBeforeYear(y) + DaysBeforeMonth(y, m) + (day - 1))

DayOf(t) == t \div 2

GetFullYear(t) ==
  CHOOSE y \in Years : DaysBeforeYear(y) <= DayOf(t) /\ DayOf(t) < DaysBeforeYear(y + 1)

GetMonth(t) ==
  LET y == GetFullYear(t)
      d == DayOf(t) - DaysBeforeYear(y)
  IN  CHOOSE m \in 0..11 :
        DaysBeforeMonth(y, m) <= d /\ d < DaysBeforeMonth(y, m) + DaysInMonth(y, m)

(***************************************************************************)
(* calculateDueDate(frequency, dueDateDay) at the instant currentDate.     *)
(***************************************************************************)
CalculateDueDate(frequency, dueDateDay, currentDate) ==
  LET currentYear == GetFullYear(currentDate)
      currentMonth == GetMonth(currentDate)
      quarterStartMonth == (currentMonth \div 3) * 3
      halfYearMonth == IF currentMonth < 6 THEN 0 ELSE 6
      Roll(first, second) == IF first < currentDate THEN second ELSE first
  IN  CASE frequency \in {"one-time", "monthly"} ->
             Roll(NewDate(currentYear, currentMonth, dueDateDay),
                  NewDate(currentYear, currentMonth + 1, dueDateDay))
        [] frequency = "quarterly" ->
             Roll(NewDate(currentYear, quarterStartMonth, dueDateDay),
                  NewDate(currentYear, quarterStartMonth + 3, dueDateDay))
        [] frequency = "half-yearly" ->
             Roll(NewDate(currentYear, halfYearMonth, dueDateDay),
                  NewDate(currentYear, halfYearMonth + 6, dueDateDay))
        [] frequency = "yearly" ->
             Roll(NewDate(currentYear, 3, dueDateDay),
                  NewDate(currentYear + 1, 3, dueDateDay))
        [] OTHER -> NewDate(currentYear, currentMonth + 1, dueDateDay)

(***************************************************************************)
(* JavaScript values of the amount fields as the instance methods see      *)
(* them: a number, or undefined (a field the stored document lacks).       *)
(***************************************************************************)
Num(n) == [t |-> "number", n |-> n]
Undefined == [t |-> "undefined", n |-> 0]
IsNumber(v) == v.t = "number"

\* a - b, a >= b and a > b on JavaScript values with a a number: the result
\* of arithmetic with undefined is NaN, and every comparison with NaN is false.
JsGe(a, v) == IsNumber(v) /\ a >= v.n

\* Math.max(x, 0)
MathMax0(x) == IF x > 0 THEN x ELSE 0

\* The difference without the clamp at zero.
PendingAmountUnclamped(finalAmountV, paidAmountV) ==
  (IF IsNumber(finalAmountV) THEN finalAmountV.n ELSE 0)
    - (IF IsNumber(paidAmountV) THEN paidAmountV.n ELSE 0)

\* feeAssignmentSchema.methods.calculatePendingAmount
CalculatePendingAmount(finalAmountV, paidAmountV) ==
  LET finalAmount == IF IsNumber(finalAmountV) THEN finalAmountV.n ELSE 0
      paidAmount == IF IsNumber(paidAmountV) THEN paidAmountV.n ELSE 0
  IN  MathMax0(finalAmount - paidAmount)

\* The derivation in which a part payment is never overdue.
UpdateStatusPartFirst(paidAmountV, finalAmountV, dueDate, today) ==
  LET paid == IF IsNumber(paidAmountV) THEN paidAmountV.n ELSE 0
  IN  IF JsGe(paid, finalAmountV) THEN PAID
      ELSE IF paid > 0 THEN PARTIALLY_PAID
      ELSE IF dueDate < today THEN OVERDUE ELSE PENDING

\* feeAssignmentSchema.methods.updateStatus: the status it sets.
UpdateStatus(paidAmountV, finalAmountV, dueDate, today) ==
  LET paid == IF IsNumber(paidAmountV) THEN paidAmountV.n ELSE 0
  IN  IF JsGe(paid, finalAmountV) THEN PAID
      ELSE IF paid > 0
           THEN (IF dueDate < today THEN OVERDUE ELSE PARTIALLY_PAID)
           ELSE (IF dueDate < today THEN OVERDUE ELSE PENDING)

(***************************************************************************)
(* State.                                                                  *)
(*   now          the clock (new Date())                                   *)
(*   classes      Class collection:        id -> row                       *)
(*   students     Student collection:      id -> row                       *)
(*   structures   FeeStructure collection: id -> row                       *)
(*   assignments  FeeAssignment collection, a row's _id is its index       *)
(*   payments     FeePayment collection, a row's _id is its index          *)
(*   req          the request running in each slot and its local state     *)
(*   resp         the response sent last (and the list the call returned)  *)
(*   autoCalled   history: the students for whom an autoAssignClassFees    *)
(*                call has returned since the fee structures last changed  *)
(*   calc         the instance method applied to a detached document       *)
(*   catalog      FeeCategory and FeeFrequency collections: id -> row      *)
(***************************************************************************)
VARIABLES now, classes, students, structures, assignments, payments, req, resp,
          autoCalled, calc, catalog

vars == <<now, classes, students, structures, assignments, payments, req, resp,
          autoCalled, calc, catalog>>

Range(s) == {s[i] : i \in DOMAIN s}

\* A FeeAssignment document; paidDate is -1 and paymentId is 0 while unset.
NoAssignment ==
  [tenant |-> "", student |-> "", feeStructure |-> "", academicYear |-> "",
   totalAmount |-> 0, discount |-> 0, finalAmount |-> 0, dueDate |-> 0,
   status |-> "", paidAmount |-> 0, paidDate |-> -1, paymentId |-> 0]

IdleReq ==
  [pc |-> "idle", op |-> "none", tenant |-> "", student |-> "", class |-> "",
   fs |-> "", asg |-> 0, amount |-> 0, discount |-> 0, orig |-> NoAssignment,
   count |-> 0, payment |-> 0, queue |-> <<>>, created |-> <<>>,
   body |-> [name |-> <<>>, description |-> <<>>, monthsInterval |-> <<>>,
             displayOrder |-> <<>>, isActive |-> <<>>]]

\* The totals of a fee summary (totalAssignments is, for the student level,
\* the number of feeDetails), with the tenant, academic year and class or
\* student it was asked for.
NoSummary == [level |-> "", scope |-> <<>>, totalAssignments |-> 0,
              totalExpected |-> 0, totalCollected |-> 0, totalPending |-> 0,
              totalOverdue |-> 0]

\* The response of request r.
Response(r, res, created) ==
  [op |-> r.op, res |-> res, created |-> created, data |-> NoSummary]

NoResponse == [op |-> "none", res |-> "", created |-> <<>>, data |-> NoSummary]

NoCalc == [fn |-> "none", paidAmount |-> Num(0), finalAmount |-> Num(0),
           dueDate |-> 0, today |-> 0, out |-> 0, status |-> "",
           frequency |-> "", dueDateDay |-> 0]

\* feeStructure is the class's list of fee structures (Class.js:112-116); it
\* agrees with the classes lists of InitStructures.
InitClasses ==
  [c \in ClassIds |->
     [tenant |-> IF c = "c1" THEN "tA" ELSE "tB", isActive |-> TRUE,
      feeStructure |-> IF c = "c1" THEN Range(StructureIds) \ {"f3"}
                       ELSE {"f3"}]]

InitStudents ==
  [s \in Students |->
     IF s = "s1" THEN [tenant |-> "tA", class |-> "c1", isActive |-> TRUE]
                 ELSE [tenant |-> "tB", class |-> "c2", isActive |-> TRUE]]

\* frequency holds the _id of a FeeFrequency row (Fee.js:35-38), here the
\* _id of the tenant's "monthly" row.
InitStructures ==
  [f \in Range(StructureIds) |->
     [tenant |-> IF f = "f3" THEN "tB" ELSE "tA",
      amount |-> IF f = "f2" THEN 3 ELSE 2,
      category |-> IF f = "f2" THEN "oid:uniform" ELSE "oid:tuition",
      frequency |-> IF f = "f2" THEN "oid:twice" ELSE "oid:monthly",
      academicYear |-> "2024-2025",
      dueDate |-> 10,
      classes |-> IF f = "f3" THEN {"c2"} ELSE {"c1"},
      isActive |-> TRUE]]

\* The FeeCategory and FeeFrequency rows: the system rows the fee structures
\* use (the default rows are created for each tenant; the ids stand for the
\* row of the tenant at hand), and custom rows of tenant tA, of which
\* fee structure f2 uses one category and one frequency.
InitCatalog ==
  [id \in {"oid:tuition", "oid:uniform", "oid:hostel",
           "oid:monthly", "oid:twice", "oid:weekly"} |->
     [kind |-> IF id \in {"oid:tuition", "oid:uniform", "oid:hostel"}
               THEN "category" ELSE "frequency",
      tenant |-> "tA",
      code |-> CASE id = "oid:tuition" -> "TUITION"
                 [] id = "oid:uniform" -> "UNIFORM_FEES"
                 [] id = "oid:hostel" -> "HOSTEL"
                 [] id = "oid:monthly" -> "monthly"
                 [] id = "oid:twice" -> "twice-yearly"
                 [] id = "oid:weekly" -> "weekly",
      isSystem |-> id \in {"oid:tuition", "oid:monthly"},
      name |-> CASE id = "oid:tuition" -> "Tuition Fee"
                 [] id = "oid:uniform" -> "Uniform Fees"
                 [] id = "oid:hostel" -> "Hostel"
                 [] id = "oid:monthly" -> "Monthly"
                 [] id = "oid:twice" -> "Twice Yearly"
                 [] id = "oid:weekly" -> "Weekly",
      description |-> "text",
      monthsInterval |-> CASE id = "oid:monthly" -> 1
                           [] id = "oid:twice" -> 6
                           [] OTHER -> 0,
      displayOrder |-> CASE id = "oid:tuition" -> 1
                         [] id = "oid:monthly" -> 2
                         [] OTHER -> 999,
      isActive |-> TRUE]]

\* 2024-01-05, noon.
StartInstant == NewDate(2024, 0, 5) + 1

Init ==
  /\ now = StartInstant
  /\ classes = InitClasses
  /\ students = InitStudents
  /\ structures = InitStructures
  /\ catalog = InitCatalog
  /\ assignments = <<>>
  /\ payments = <<>>
  /\ req = [p \in Procs |-> IdleReq]
  /\ resp = NoResponse
  /\ autoCalled = {}
  /\ calc = NoCalc

\* Time passes.
Tick ==
  /\ \E d \in TickSteps : now + d <= MaxNow /\ now' = now + d
  /\ UNCHANGED <<catalog, classes, students, structures, assignments, payments,
                 req, resp, autoCalled, calc>>

(***************************************************************************)
(* Mongoose documents.                                                     *)
(***************************************************************************)

\* feeAssignmentSchema.pre('save')
PreSaveAssignment(doc, isNew, today) ==
  LET d == IF isNew
           THEN [doc EXCEPT !.finalAmount = doc.totalAmount - doc.discount]
           ELSE doc
  IN  [d EXCEPT !.status =
         IF d.paidAmount >= d.finalAmount THEN PAID
         ELSE IF d.paidAmount > 0 THEN PARTIALLY_PAID
         ELSE IF d.dueDate < today THEN OVERDUE
         ELSE @]

\* assignment.updateStatus() on a loaded document
WithUpdatedStatus(doc, today) ==
  [doc EXCEPT !.status =
     UpdateStatus(Num(doc.paidAmount), Num(doc.finalAmount), doc.dueDate, today)]

\* doc.save() of a loaded document: the pre-save hook runs, then the paths
\* whose value differs from the loaded one are $set on the stored row.
SaveAssignment(stored, orig, doc, today) ==
  LET d == PreSaveAssignment(doc, FALSE, today)
  IN  [f \in DOMAIN stored |-> IF d[f] # orig[f] THEN d[f] ELSE stored[f]]

\* (n).toString()
RECURSIVE ToDigits(_)
ToDigits(n) == IF n < 10 THEN <<n>> ELSE ToDigits(n \div 10) \o <<n % 10>>

\* str.padStart(len, '0')
RECURSIVE PadStart0(_, _)
PadStart0(str, len) == IF Len(str) >= len THEN str ELSE PadStart0(<<0>> \o str, len)

\* feePaymentSchema.pre('save'): `RCP${year}${(count + 1).toString().padStart(6, '0')}`
ReceiptNumber(year, count) ==
  [prefix |-> "RCP", year |-> ToDigits(year), seq |-> PadStart0(ToDigits(count + 1), 6)]

\* countDocuments({ tenant })
CountPayments(tenant) ==
  Cardinality({i \in DOMAIN payments : payments[i].tenant = tenant})

\* A FeePayment collection without the unique indexes.
NoUniqueIndex(row) == FALSE

\* The unique indexes of FeePayment: receiptNumber, and (tenant, receiptNumber).
DuplicateReceipt(row) ==
  \E i \in DOMAIN payments :
    \/ payments[i].receiptNumber = row.receiptNumber
    \/ /\ payments[i].tenant = row.tenant
       /\ payments[i].receiptNumber = row.receiptNumber

PaymentMethods == {"cash", "cheque", "online", "bank_transfer", "card"}
MethodsTried == {"cash", "upi"}

(***************************************************************************)
(* Requests.                                                               *)
(***************************************************************************)

\* The request in slot p answers: its locals are gone.
Finish(p, r, res, created) ==
  /\ req' = [req EXCEPT ![p] = IdleReq]
  /\ resp' = Response(r, res, created)
  /\ autoCalled' =
       IF r.op = "autoAssignClassFees"
       THEN autoCalled \cup {r.student}
       ELSE IF /\ r.op \in {"deleteClass", "createFeeStructure",
                            "updateFeeStructure", "deleteFeeStructure"}
               /\ res \in {"200", "201"}
       THEN {}
       ELSE autoCalled

\* The request in slot p goes on to its next await.
Continue(p, r) ==
  /\ req' = [req EXCEPT ![p] = r]
  /\ UNCHANGED <<resp, autoCalled>>

(***************************************************************************)
(* recordFeePayment                                                        *)
(***************************************************************************)
InFlightPayments ==
  Cardinality({q \in Procs : req[q].op = "recordFeePayment"
                              /\ req[q].pc \in {"count", "insert"}})

\* No remaining-amount check at all.
ExceedsNever(amount, feeAssignment) == FALSE

\* The check against the full amount of the fee, what is paid forgotten.
ExceedsFinalAmount(amount, feeAssignment) ==
  amount > feeAssignment.finalAmount

\* The check against the amount before the discount.
ExceedsTotalRemaining(amount, feeAssignment) ==
  amount > feeAssignment.totalAmount - feeAssignment.paidAmount

\* if (amount > remainingAmount)
ExceedsRemaining(amount, feeAssignment) ==
  amount > feeAssignment.finalAmount - feeAssignment.paidAmount

\* FeeAssignment.findOne, the remaining-amount check and the validation of
\* the new FeePayment.
RecordFeePaymentFind(p) ==
  /\ req[p].pc = "idle"
  /\ Len(payments) + InFlightPayments < MaxPayments
  /\ \E tenant \in Tenants, studentId \in DOMAIN students,
        feeAssignmentId \in 1..MaxAssignments, amount \in Amounts,
        paymentMethod \in MethodsTried :
       LET r == [IdleReq EXCEPT !.op = "recordFeePayment", !.tenant = tenant,
                                !.student = studentId, !.asg = feeAssignmentId,
                                !.amount = amount]
           found == /\ feeAssignmentId \in DOMAIN assignments
                    /\ assignments[feeAssignmentId].tenant = tenant
                    /\ assignments[feeAssignmentId].student = studentId
           feeAssignment == assignments[feeAssignmentId]
       IN  IF ~found THEN Finish(p, r, "404", <<>>)
           ELSE IF ExceedsRemaining(amount, feeAssignment)
                THEN Finish(p, r, "400:exceeds", <<>>)
           ELSE IF paymentMethod \notin PaymentMethods
                THEN Finish(p, r, "400:validation", <<>>)
           ELSE Continue(p, [r EXCEPT !.pc = "count", !.orig = feeAssignment])
  /\ UNCHANGED <<catalog, now, classes, students, structures, assignments, payments, calc>>

\* feePaymentSchema.pre('save'): countDocuments
RecordFeePaymentCount(p) ==
  /\ req[p].op = "recordFeePayment" /\ req[p].pc = "count"
  /\ Continue(p, [req[p] EXCEPT !.pc = "insert",
                                !.count = CountPayments(req[p].tenant)])
  /\ UNCHANGED <<catalog, now, classes, students, structures, assignments, payments, calc>>

\* FeePayment.create: the insert; a duplicate key makes it throw.
RecordFeePaymentInsert(p) ==
  /\ req[p].op = "recordFeePayment" /\ req[p].pc = "insert"
  /\ LET r == req[p]
         payment == [tenant |-> r.tenant, student |-> r.student,
                     feeAssignment |-> r.asg, amount |-> r.amount,
                     receiptNumber |-> ReceiptNumber(GetFullYear(now), r.count),
                     status |-> "completed"]
     IN  IF DuplicateReceipt(payment)
         THEN /\ Finish(p, r, "400:E11000", <<>>)
              /\ UNCHANGED payments
         ELSE /\ payments' = Append(payments, payment)
              /\ Continue(p, [r EXCEPT !.pc = "save", !.payment = Len(payments) + 1])
  /\ UNCHANGED <<catalog, now, classes, students, structures, assignments, calc>>

\* paidAmount += amount, paidDate, paymentId, updateStatus(), save()
RecordFeePaymentSave(p) ==
  /\ req[p].op = "recordFeePayment" /\ req[p].pc = "save"
  /\ LET r == req[p]
         doc == WithUpdatedStatus(
                  [r.orig EXCEPT !.paidAmount = @ + r.amount, !.paidDate = now,
                                 !.paymentId = r.payment], now)
     IN  /\ assignments' = [assignments EXCEPT ![r.asg] =
                              SaveAssignment(@, r.orig, doc, now)]
         /\ Finish(p, r, "201", <<>>)
  /\ UNCHANGED <<catalog, now, classes, students, structures, payments, calc>>

(***************************************************************************)
(* assignFeeToStudent and autoAssignClassFees                              *)
(***************************************************************************)

\* The existence check left out: no assignment is ever found.
NoExistingAssignment(tenant, student, feeStructure, academicYear) == FALSE

\* An existence check that matches the rows of the other academic years.
ExistingForOtherYear(tenant, student, feeStructure, academicYear) ==
  \E i \in DOMAIN assignments :
    /\ assignments[i].tenant = tenant
    /\ assignments[i].student = student
    /\ assignments[i].feeStructure = feeStructure
    /\ assignments[i].academicYear # academicYear

\* FeeAssignment.findOne({ tenant, student, feeStructure, academicYear })
ExistingAssignment(tenant, student, feeStructure, academicYear) ==
  \E i \in DOMAIN assignments :
    /\ assignments[i].tenant = tenant
    /\ assignments[i].student = student
    /\ assignments[i].feeStructure = feeStructure
    /\ assignments[i].academicYear = academicYear

\* The document built with the discount left out of finalAmount.
NewAssignmentUndiscounted(tenant, student, fsId, fs, discountAmount, dueDateDay, today) ==
  [NoAssignment EXCEPT !.tenant = tenant, !.student = student,
                       !.feeStructure = fsId,
                       !.academicYear = fs.academicYear,
                       !.totalAmount = fs.amount,
                       !.discount = discountAmount,
                       !.finalAmount = fs.amount,
                       !.dueDate = CalculateDueDate(fs.frequency, dueDateDay, today),
                       !.status = IF fs.amount <= 0 THEN PAID ELSE PENDING]

\* FeeAssignment.create of the controllers: the document they build, through
\* the pre-save hook of a new document.
NewAssignment(tenant, student, fsId, fs, discountAmount, dueDateDay, today) ==
  PreSaveAssignment(
    [NoAssignment EXCEPT !.tenant = tenant, !.student = student,
                         !.feeStructure = fsId,
                         !.academicYear = fs.academicYear,
                         !.totalAmount = fs.amount,
                         !.discount = discountAmount,
                         !.finalAmount = fs.amount - discountAmount,
                         !.dueDate = CalculateDueDate(fs.frequency, dueDateDay, today),
                         !.status = PENDING],
    TRUE, today)

\* FeeStructure.find({ tenant, classes: classId, isActive: true }), in _id order
RECURSIVE ClassStructures(_, _, _)
ClassStructures(tenant, classId, ids) ==
  IF ids = <<>> THEN <<>>
  ELSE LET f == Head(ids)
           rest == ClassStructures(tenant, classId, Tail(ids))
       IN  IF /\ f \in DOMAIN structures
              /\ structures[f].tenant = tenant
              /\ classId \in structures[f].classes
              /\ structures[f].isActive
           THEN <<[id |-> f, row |-> structures[f]]>> \o rest
           ELSE rest

\* Rows the running requests may still insert.
Reserved(q) ==
  IF req[q].op \in {"assignFeeToStudent", "autoAssignClassFees", "createStudent"}
  THEN Len(req[q].queue) ELSE 0

RECURSIVE ReservedIn(_)
ReservedIn(S) ==
  IF S = {} THEN 0
  ELSE LET q == CHOOSE x \in S : TRUE IN Reserved(q) + ReservedIn(S \ {q})

Room == MaxAssignments - Len(assignments) - ReservedIn(Procs)

\* Rows a request starting now would insert for these fee structures.
Needed(tenant, student, feeStructures) ==
  Cardinality({k \in DOMAIN feeStructures :
                 ~ExistingAssignment(tenant, student, feeStructures[k].id,
                                     feeStructures[k].row.academicYear)})

\* FeeStructure.findOne({ _id, tenant }); the admin names a student of the
\* school.
AssignFeeToStudentFind(p) ==
  /\ req[p].pc = "idle"
  /\ \E tenant \in Tenants, studentId \in DOMAIN students,
        feeStructureId \in DOMAIN structures, discount \in DiscountAmounts :
       LET r == [IdleReq EXCEPT !.op = "assignFeeToStudent", !.tenant = tenant,
                                !.student = studentId, !.fs = feeStructureId,
                                !.discount = discount]
       IN  /\ students[studentId].tenant = tenant
           /\ Room >= Needed(tenant, studentId,
                             <<[id |-> feeStructureId,
                                row |-> structures[feeStructureId]]>>)
           /\ IF structures[feeStructureId].tenant # tenant
              THEN Finish(p, r, "404", <<>>)
              ELSE Continue(p, [r EXCEPT !.pc = "exists",
                                         !.queue = <<[id |-> feeStructureId,
                                                      row |-> structures[feeStructureId]]>>])
  /\ UNCHANGED <<catalog, now, classes, students, structures, assignments, payments, calc>>

\* FeeAssignment.findOne: is the fee already assigned?
AssignFeeToStudentExists(p) ==
  /\ req[p].op = "assignFeeToStudent" /\ req[p].pc = "exists"
  /\ LET r == req[p]
         feeStructure == Head(r.queue).row
     IN  IF ExistingAssignment(r.tenant, r.student, r.fs, feeStructure.academicYear)
         THEN Finish(p, r, "400:assigned", <<>>)
         ELSE Continue(p, [r EXCEPT !.pc = "create"])
  /\ UNCHANGED <<catalog, now, classes, students, structures, assignments, payments, calc>>

\* calculateDueDate and FeeAssignment.create
AssignFeeToStudentCreate(p) ==
  /\ req[p].op = "assignFeeToStudent" /\ req[p].pc = "create"
  /\ LET r == req[p]
         feeStructure == Head(r.queue).row
     IN  /\ assignments' = Append(assignments,
              NewAssignment(r.tenant, r.student, r.fs, feeStructure, r.discount,
                            feeStructure.dueDate, now))
         /\ Finish(p, r, "201", <<Len(assignments) + 1>>)
  /\ UNCHANGED <<catalog, now, classes, students, structures, payments, calc>>

\* autoAssignClassFees(studentId, classId, tenantId), called for a student of
\* an active class of the tenant: FeeStructure.find
AutoAssignClassFeesFind(p) ==
  /\ req[p].pc = "idle"
  /\ \E studentId \in DOMAIN students :
       LET classId == students[studentId].class
           tenantId == students[studentId].tenant
           feeStructures == ClassStructures(tenantId, classId,
                                            StructureIds \o <<NewStructureId>>)
           r == [IdleReq EXCEPT !.op = "autoAssignClassFees", !.tenant = tenantId,
                                !.student = studentId, !.class = classId]
       IN  /\ classes[classId].isActive /\ classes[classId].tenant = tenantId
           /\ Room >= Needed(tenantId, studentId, feeStructures)
           /\ IF feeStructures = <<>> THEN Finish(p, r, "returned", <<>>)
              ELSE Continue(p, [r EXCEPT !.pc = "exists", !.queue = feeStructures])
  /\ UNCHANGED <<catalog, now, classes, students, structures, assignments, payments, calc>>

\* The loop goes on with the next fee structure, or the call returns.
AutoAssignNext(p, r, created) ==
  IF Len(r.queue) = 1
  THEN IF r.op = "createStudent"
       THEN Continue(p, [r EXCEPT !.pc = "discount", !.queue = <<>>,
                                  !.created = created])
       ELSE Finish(p, r, "returned", created)
  ELSE Continue(p, [r EXCEPT !.pc = "exists", !.queue = Tail(r.queue),
                             !.created = created])

\* FeeAssignment.findOne for the fee structure at hand
AutoAssignClassFeesExists(p) ==
  /\ req[p].op \in {"autoAssignClassFees", "createStudent"}
  /\ req[p].pc = "exists"
  /\ LET r == req[p]
         feeStructure == Head(r.queue)
     IN  IF ExistingAssignment(r.tenant, r.student, feeStructure.id,
                               feeStructure.row.academicYear)
         THEN AutoAssignNext(p, r, r.created)
         ELSE Continue(p, [r EXCEPT !.pc = "create"])
  /\ UNCHANGED <<catalog, now, classes, students, structures, assignments, payments, calc>>

\* calculateDueDate(frequency, dueDate || 10) and FeeAssignment.create
AutoAssignClassFeesCreate(p) ==
  /\ req[p].op \in {"autoAssignClassFees", "createStudent"}
  /\ req[p].pc = "create"
  /\ LET r == req[p]
         feeStructure == Head(r.queue)
         dueDateDay == IF feeStructure.row.dueDate = 0 THEN 10
                       ELSE feeStructure.row.dueDate
     IN  /\ assignments' = Append(assignments,
              NewAssignment(r.tenant, r.student, feeStructure.id, feeStructure.row,
                            0, dueDateDay, now))
         /\ AutoAssignNext(p, r, Append(r.created, Len(assignments) + 1))
  /\ UNCHANGED <<catalog, now, classes, students, structures, payments, calc>>

(***************************************************************************)
(* createStudent                                                           *)
(***************************************************************************)

\* startSession, startTransaction and tenant.canAddMoreStudents(); the plan
\* of the tenant and the students it counts are outside the model.
CreateStudentStart(p) ==
  /\ req[p].pc = "idle"
  /\ NewStudentId \notin DOMAIN students
  /\ \A q \in Procs : req[q].op # "createStudent"
  /\ \E tenant \in Tenants, classId \in DOMAIN classes,
        feeDiscount \in DiscountAmounts, canAdd \in BOOLEAN :
       LET r == [IdleReq EXCEPT !.op = "createStudent", !.tenant = tenant,
                                !.student = NewStudentId, !.class = classId,
                                !.discount = feeDiscount]
       IN  IF ~canAdd THEN Finish(p, r, "400:limit", <<>>)
           ELSE Continue(p, [r EXCEPT !.pc = "class"])
  /\ UNCHANGED <<catalog, now, classes, students, structures, assignments,
                 payments, calc>>

\* Class.findOne({ _id, tenant, isActive: true }), hasCapacity(), the parent
\* and Student.create in the session: the student is stored at the commit.
CreateStudentClass(p) ==
  /\ req[p].op = "createStudent" /\ req[p].pc = "class"
  /\ LET r == req[p]
     IN  IF ~(classes[r.class].tenant = r.tenant /\ classes[r.class].isActive)
         THEN Finish(p, r, "404", <<>>)
         ELSE \E hasCapacity \in BOOLEAN :
                IF ~hasCapacity THEN Finish(p, r, "400:capacity", <<>>)
                ELSE Continue(p, [r EXCEPT !.pc = "find"])
  /\ UNCHANGED <<catalog, now, classes, students, structures, assignments,
                 payments, calc>>

\* autoAssignClassFees(createdStudent._id, classId, tenant): FeeStructure.find
CreateStudentFind(p) ==
  /\ req[p].op = "createStudent" /\ req[p].pc = "find"
  /\ LET r == req[p]
         feeStructures == ClassStructures(r.tenant, r.class,
                                          StructureIds \o <<NewStructureId>>)
     IN  /\ Room >= Len(feeStructures)
         /\ IF feeStructures = <<>>
            THEN Continue(p, [r EXCEPT !.pc = "discount"])
            ELSE Continue(p, [r EXCEPT !.pc = "exists", !.queue = feeStructures])
  /\ UNCHANGED <<catalog, now, classes, students, structures, assignments,
                 payments, calc>>

\* A batch undone when the call throws.
BatchRolledBack(created) ==
  SubSeq(assignments, 1, Len(assignments) - Len(created))

\* What is stored of the batch when autoAssignClassFees throws: the rows were
\* created outside the session, one by one.
BatchOnThrow(created) == assignments

\* An await of autoAssignClassFees rejects (the database fails): the function
\* rethrows and createStudent catches and logs.
CreateStudentThrows(p) ==
  /\ req[p].op = "createStudent" /\ req[p].pc \in {"find", "exists", "create"}
  /\ assignments' = BatchOnThrow(req[p].created)
  /\ Continue(p, [req[p] EXCEPT !.pc = "caught"])
  /\ UNCHANGED <<catalog, now, classes, students, structures, payments, calc>>

\* assignment.installments of a FeeAssignment document: the schema has no
\* such path.
Installments(assignment) == Undefined

\* if (feeDiscount && feeDiscount.amount > 0 && feeAssignments.length > 0):
\* the loop sets discount and finalAmount on the first document, then reads
\* assignment.installments.length before it saves; with installments
\* undefined that throws and the catch logs.
CreateStudentDiscount(p) ==
  /\ req[p].op = "createStudent" /\ req[p].pc = "discount"
  /\ LET r == req[p]
     IN  IF r.discount > 0 /\ Len(r.created) > 0
         THEN IF ~IsNumber(Installments(assignments[Head(r.created)]))
              THEN /\ UNCHANGED assignments
                   /\ Continue(p, [r EXCEPT !.pc = "caught"])
              ELSE /\ assignments' =
                        [i \in DOMAIN assignments |->
                           IF i \in Range(r.created)
                           THEN LET doc == [assignments[i] EXCEPT
                                              !.discount = r.discount,
                                              !.finalAmount =
                                                 assignments[i].totalAmount
                                                 - r.discount]
                                IN  SaveAssignment(assignments[i], assignments[i],
                                                   doc, now)
                           ELSE assignments[i]]
                   /\ Continue(p, [r EXCEPT !.pc = "commit"])
         ELSE /\ UNCHANGED assignments
              /\ Continue(p, [r EXCEPT !.pc = "commit"])
  /\ UNCHANGED <<catalog, now, classes, students, structures, payments, calc>>

\* commitTransaction and the 201 response
CreateStudentCommit(p) ==
  /\ req[p].op = "createStudent" /\ req[p].pc \in {"commit", "caught"}
  /\ students' = [s \in DOMAIN students \cup {req[p].student} |->
                    IF s = req[p].student
                    THEN [tenant |-> req[p].tenant, class |-> req[p].class,
                          isActive |-> TRUE]
                    ELSE students[s]]
  /\ Finish(p, req[p], "201", req[p].created)
  /\ UNCHANGED <<catalog, now, classes, structures, assignments, payments, calc>>

(***************************************************************************)
(* getStudentFees                                                          *)
(***************************************************************************)

\* FeeAssignment.find({ tenant, student }), in _id order
RECURSIVE StudentAssignments(_, _, _)
StudentAssignments(tenant, student, i) ==
  IF i > Len(assignments) THEN <<>>
  ELSE LET rest == StudentAssignments(tenant, student, i + 1)
       IN  IF assignments[i].tenant = tenant /\ assignments[i].student = student
           THEN <<[id |-> i, row |-> assignments[i]]>> \o rest
           ELSE rest

GetStudentFeesFind(p) ==
  /\ req[p].pc = "idle"
  /\ \E tenant \in Tenants, studentId \in DOMAIN students :
       LET r == [IdleReq EXCEPT !.op = "getStudentFees", !.tenant = tenant,
                                !.student = studentId]
           feeAssignments == StudentAssignments(tenant, studentId, 1)
       IN  IF feeAssignments = <<>> THEN Finish(p, r, "200", <<>>)
           ELSE Continue(p, [r EXCEPT !.pc = "save", !.queue = feeAssignments])
  /\ UNCHANGED <<catalog, now, classes, students, structures, assignments, payments, calc>>

\* assignment.updateStatus(); await assignment.save() for the next assignment
GetStudentFeesSave(p) ==
  /\ req[p].op = "getStudentFees" /\ req[p].pc = "save"
  /\ LET r == req[p]
         loaded == Head(r.queue)
         doc == WithUpdatedStatus(loaded.row, now)
     IN  /\ assignments' = [assignments EXCEPT ![loaded.id] =
                              SaveAssignment(@, loaded.row, doc, now)]
         /\ IF Len(r.queue) = 1 THEN Finish(p, r, "200", <<>>)
            ELSE Continue(p, [r EXCEPT !.queue = Tail(r.queue)])
  /\ UNCHANGED <<catalog, now, classes, students, structures, payments, calc>>

(***************************************************************************)
(* createFeeStructure, updateFeeStructure and deleteFeeStructure.  A       *)
(* request is authenticated (req.user, with its tenant, is loaded) and     *)
(* then handled; its body is kept in the queue field.                      *)
(***************************************************************************)

\* The request bodies tried: a body names an amount, and a tenant or none.
StructureBodies ==
  {[tenant |-> t, amount |-> a] : t \in {"", "tA", "tB"}, a \in {-1, 4}}

\* The validator of FeeStructure.amount: min 0
ValidAmount(amount) == amount >= 0

\* The row FeeStructure.create stores: { ...req.body, tenant, isActive }
CreatedStructure(tenant, body) ==
  [tenant |-> tenant, amount |-> body.amount, category |-> "oid:tuition",
   frequency |-> "oid:monthly",
   academicYear |-> "2024-2025", dueDate |-> 10, classes |-> {},
   isActive |-> TRUE]

\* The row after findByIdAndUpdate(id, req.body): the fields the body names
\* are set.
UpdatedStructure(row, body) ==
  [row EXCEPT !.amount = body.amount,
              !.tenant = IF body.tenant # "" THEN body.tenant ELSE @]

\* protect: the user and the tenant of a createFeeStructure request
CreateFeeStructureAuth(p) ==
  /\ req[p].pc = "idle"
  /\ NewStructureId \notin DOMAIN structures
  /\ \A q \in Procs : req[q].op # "createFeeStructure"
  /\ \E tenant \in Tenants, body \in StructureBodies :
       Continue(p, [IdleReq EXCEPT !.op = "createFeeStructure", !.pc = "create",
                                   !.tenant = tenant, !.fs = NewStructureId,
                                   !.queue = <<body>>])
  /\ UNCHANGED <<catalog, now, classes, students, structures, assignments, payments, calc>>

\* FeeStructure.create
CreateFeeStructure(p) ==
  /\ req[p].op = "createFeeStructure" /\ req[p].pc = "create"
  /\ LET r == req[p]
         body == Head(r.queue)
     IN  IF ~ValidAmount(body.amount)
         THEN /\ Finish(p, r, "400:validation", <<>>)
              /\ UNCHANGED structures
         ELSE /\ structures' = structures @@ (r.fs :> CreatedStructure(r.tenant, body))
              /\ Finish(p, r, "201", <<>>)
  /\ UNCHANGED <<catalog, now, classes, students, assignments, payments, calc>>

\* updateFeeStructure: FeeStructure.findOne({ _id, tenant })
UpdateFeeStructureFind(p) ==
  /\ req[p].pc = "idle"
  /\ \E tenant \in Tenants, id \in DOMAIN structures, body \in StructureBodies :
       LET r == [IdleReq EXCEPT !.op = "updateFeeStructure", !.tenant = tenant,
                                !.fs = id, !.queue = <<body>>]
       IN  IF structures[id].tenant # tenant THEN Finish(p, r, "404", <<>>)
           ELSE Continue(p, [r EXCEPT !.pc = "update"])
  /\ UNCHANGED <<catalog, now, classes, students, structures, assignments, payments, calc>>

\* updateFeeStructure: FeeStructure.findByIdAndUpdate(id, req.body,
\* { runValidators: true })
UpdateFeeStructureUpdate(p) ==
  /\ req[p].op = "updateFeeStructure" /\ req[p].pc = "update"
  /\ LET r == req[p]
         body == Head(r.queue)
     IN  IF ~ValidAmount(body.amount)
         THEN /\ Finish(p, r, "400:validation", <<>>)
              /\ UNCHANGED structures
         ELSE /\ structures' = [structures EXCEPT
                                  ![r.fs] = UpdatedStructure(@, body)]
              /\ Finish(p, r, "200", <<>>)
  /\ UNCHANGED <<catalog, now, classes, students, assignments, payments, calc>>

\* deleteFeeStructure: FeeStructure.findOne({ _id, tenant })
DeleteFeeStructureFind(p) ==
  /\ req[p].pc = "idle"
  /\ \E tenant \in Tenants, id \in DOMAIN structures :
       LET r == [IdleReq EXCEPT !.op = "deleteFeeStructure", !.tenant = tenant,
                                !.fs = id]
       IN  IF structures[id].tenant # tenant THEN Finish(p, r, "404", <<>>)
           ELSE Continue(p, [r EXCEPT !.pc = "update"])
  /\ UNCHANGED <<catalog, now, classes, students, structures, assignments, payments, calc>>

\* deleteFeeStructure: FeeStructure.findByIdAndUpdate(id, { isActive: false })
DeleteFeeStructureUpdate(p) ==
  /\ req[p].op = "deleteFeeStructure" /\ req[p].pc = "update"
  /\ structures' = [structures EXCEPT ![req[p].fs].isActive = FALSE]
  /\ Finish(p, req[p], "200", <<>>)
  /\ UNCHANGED <<catalog, now, classes, students, assignments, payments, calc>>

(***************************************************************************)
(* initializeDefaultCategories and initializeDefaultFrequencies            *)
(***************************************************************************)

\* getDefaultCategories() (a category has no monthsInterval: 0 here)
DefaultCategories ==
  << [name |-> "Tuition Fee", code |-> "TUITION", monthsInterval |-> 0, displayOrder |-> 1],
     [name |-> "Transport Fee", code |-> "TRANSPORT", monthsInterval |-> 0, displayOrder |-> 2],
     [name |-> "Library Fee", code |-> "LIBRARY", monthsInterval |-> 0, displayOrder |-> 3],
     [name |-> "Laboratory Fee", code |-> "LABORATORY", monthsInterval |-> 0, displayOrder |-> 4],
     [name |-> "Sports Fee", code |-> "SPORTS", monthsInterval |-> 0, displayOrder |-> 5],
     [name |-> "Exam Fee", code |-> "EXAM", monthsInterval |-> 0, displayOrder |-> 6],
     [name |-> "Admission Fee", code |-> "ADMISSION", monthsInterval |-> 0, displayOrder |-> 7],
     [name |-> "Other", code |-> "OTHER", monthsInterval |-> 0, displayOrder |-> 999] >>

\* getDefaultFrequencies()
DefaultFrequencies ==
  << [name |-> "One Time", code |-> "one-time", monthsInterval |-> 0, displayOrder |-> 1],
     [name |-> "Monthly", code |-> "monthly", monthsInterval |-> 1, displayOrder |-> 2],
     [name |-> "Quarterly", code |-> "quarterly", monthsInterval |-> 3, displayOrder |-> 3],
     [name |-> "Half Yearly", code |-> "half-yearly", monthsInterval |-> 6, displayOrder |-> 4],
     [name |-> "Yearly", code |-> "yearly", monthsInterval |-> 12, displayOrder |-> 5] >>

DefaultRows(kind) ==
  IF kind = "category" THEN DefaultCategories ELSE DefaultFrequencies

\* The ids standing for ObjectIds are strings: the _id of a default row is
\* the string of its tenant, kind and place.
DefaultRowIds ==
  [tenant \in Tenants |->
     [kind \in {"category", "frequency"} |->
        IF tenant = "tA"
        THEN IF kind = "category"
             THEN <<"tA:c1", "tA:c2", "tA:c3", "tA:c4", "tA:c5", "tA:c6", "tA:c7", "tA:c8">>
             ELSE <<"tA:f1", "tA:f2", "tA:f3", "tA:f4", "tA:f5">>
        ELSE IF kind = "category"
             THEN <<"tB:c1", "tB:c2", "tB:c3", "tB:c4", "tB:c5", "tB:c6", "tB:c7", "tB:c8">>
             ELSE <<"tB:f1", "tB:f2", "tB:f3", "tB:f4", "tB:f5">>]]

\* The document of the k-th default row of a tenant.
DefaultRow(tenant, kind, k) ==
  LET d == DefaultRows(kind)[k]
  IN  [kind |-> kind, tenant |-> tenant, code |-> d.code, isSystem |-> TRUE,
       name |-> d.name, description |-> "", monthsInterval |-> d.monthsInterval,
       displayOrder |-> d.displayOrder, isActive |-> TRUE]

\* countDocuments({ tenant, isSystem: true })
SystemRows(tenant, kind) ==
  {id \in DOMAIN catalog : /\ catalog[id].tenant = tenant
                            /\ catalog[id].kind = kind
                            /\ catalog[id].isSystem}

\* The unique indexes (tenant, code) and (tenant, name) refuse the row.
DuplicateRow(row) ==
  \E id \in DOMAIN catalog :
    /\ catalog[id].kind = row.kind
    /\ catalog[id].tenant = row.tenant
    /\ (catalog[id].code = row.code \/ catalog[id].name = row.name)

\* The places of the documents that the unique indexes refuse.
RefusedPlaces(tenant, kind) ==
  {k \in DOMAIN DefaultRows(kind) : DuplicateRow(DefaultRow(tenant, kind, k))}

\* Documents written one by one without a transaction: those before the
\* failing one stay.
InsertedBeforeFailure(tenant, kind, k) == 1 .. (k - 1)

\* What stays of the documents created in the session when the k-th fails:
\* the transaction is aborted.
InsertedOnFailure(tenant, kind, k) == {}

\* The collection with the default rows at the places given added.
WithDefaultRows(tenant, kind, places) ==
  LET ids == {DefaultRowIds[tenant][kind][k] : k \in places}
      PlaceOf(id) == CHOOSE k \in places : DefaultRowIds[tenant][kind][k] = id
  IN  [id \in DOMAIN catalog \cup ids |->
         IF id \in DOMAIN catalog THEN catalog[id]
         ELSE DefaultRow(tenant, kind, PlaceOf(id))]

\* startSession and startTransaction
InitializeDefaultsStart(p, op) ==
  /\ req[p].pc = "idle"
  /\ \E tenant \in Tenants :
       Continue(p, [IdleReq EXCEPT !.op = op, !.pc = "count", !.tenant = tenant])
  /\ UNCHANGED <<catalog, now, classes, students, structures, assignments,
                 payments, calc>>

\* countDocuments({ tenant, isSystem: true }) and the refusal of a second
\* initialisation
InitializeDefaultsCount(p, op, kind) ==
  /\ req[p].op = op /\ req[p].pc = "count"
  /\ IF SystemRows(req[p].tenant, kind) # {}
     THEN Finish(p, req[p], "400:initialized", <<>>)
     ELSE Continue(p, [req[p] EXCEPT !.pc = "create"])
  /\ UNCHANGED <<catalog, now, classes, students, structures, assignments,
                 payments, calc>>

\* create(documents, { session }) and commitTransaction: the documents are
\* stored at the commit; the create fails at the first document a unique
\* index refuses, or at any document when the database fails (failsAt, 0 for
\* no failure), and the catch aborts the transaction.
InitializeDefaultsCreate(p, op, kind) ==
  /\ req[p].op = op /\ req[p].pc = "create"
  /\ \E failsAt \in {0} \cup DOMAIN DefaultRows(kind) :
       LET tenant == req[p].tenant
           failing == RefusedPlaces(tenant, kind) \cup (IF failsAt = 0 THEN {} ELSE {failsAt})
           first == CHOOSE k \in failing : \A j \in failing : k <= j
       IN  IF failing = {}
           THEN /\ catalog' = WithDefaultRows(tenant, kind,
                                              DOMAIN DefaultRows(kind))
                /\ Finish(p, req[p], "201", <<>>)
           ELSE /\ catalog' = WithDefaultRows(tenant, kind,
                                   InsertedOnFailure(tenant, kind, first))
                /\ Finish(p, req[p], "400:error", <<>>)
  /\ UNCHANGED <<now, classes, students, structures, assignments, payments, calc>>

InitializeDefaultCategoriesStart(p) ==
  InitializeDefaultsStart(p, "initializeDefaultCategories")

InitializeDefaultCategoriesCount(p) ==
  InitializeDefaultsCount(p, "initializeDefaultCategories", "category")

InitializeDefaultCategoriesCreate(p) ==
  InitializeDefaultsCreate(p, "initializeDefaultCategories", "category")

InitializeDefaultFrequenciesStart(p) ==
  InitializeDefaultsStart(p, "initializeDefaultFrequencies")

InitializeDefaultFrequenciesCount(p) ==
  InitializeDefaultsCount(p, "initializeDefaultFrequencies", "frequency")

InitializeDefaultFrequenciesCreate(p) ==
  InitializeDefaultsCreate(p, "initializeDefaultFrequencies", "frequency")

(***************************************************************************)
(* updateFeeCategory and updateFeeFrequency                                *)
(***************************************************************************)

\* A field of req.body: <<>> when the body lacks it (undefined), else <<v>>.
IsUndefined(field) == field = <<>>

\* The truthiness of a field of the body that holds a string, or a number.
TruthyString(field) == field # <<>> /\ field[1] # ""

TruthyNumber(field) == field # <<>> /\ field[1] # 0

\* The bodies of the update requests.
UpdateBodies ==
  [name : {<<>>, <<"">>, <<"UNIFORM FEES">>, <<"Boarding">>},
   description : {<<>>, <<"">>},
   monthsInterval : {<<>>, <<0>>},
   displayOrder : {<<>>, <<0>>, <<5>>},
   isActive : {<<>>, <<FALSE>>}]

\* The lower case of a name, by which new RegExp(`^${name}$`, 'i') compares.
LowerCase(name) ==
  IF name \in {"UNIFORM FEES", "Uniform Fees"} THEN "uniform fees" ELSE name

\* The edit of a system row that is refused.  A category has no
\* monthsInterval: updateFeeCategory does not read it from the body.
SystemRowGuard(kind, body) ==
  \/ TruthyString(body.name)
  \/ TruthyString(body.description)
  \/ kind = "frequency" /\ ~IsUndefined(body.monthsInterval)
  \/ TruthyNumber(body.displayOrder)

\* "Update fields": the row with the fields of the body set on it.
UpdatedRow(row, body) ==
  [row EXCEPT
     !.name = IF TruthyString(body.name) THEN body.name[1] ELSE @,
     !.description = IF ~IsUndefined(body.description)
                     THEN body.description[1] ELSE @,
     !.monthsInterval = IF row.kind = "frequency"
                           /\ ~IsUndefined(body.monthsInterval)
                        THEN body.monthsInterval[1] ELSE @,
     !.displayOrder = IF ~IsUndefined(body.displayOrder)
                      THEN body.displayOrder[1] ELSE @,
     !.isActive = IF ~IsUndefined(body.isActive) THEN body.isActive[1] ELSE @]

\* findOne({ _id, tenant }), the check of a system row and the findOne for
\* another row of the tenant with the new name
UpdateCatalogRowFind(p, op, kind) ==
  /\ req[p].pc = "idle"
  /\ \E tenant \in Tenants, id \in DOMAIN InitCatalog, body \in UpdateBodies :
       LET r == [IdleReq EXCEPT !.op = op, !.tenant = tenant, !.fs = id,
                                !.body = body]
           found == /\ id \in DOMAIN catalog
                    /\ catalog[id].kind = kind
                    /\ catalog[id].tenant = tenant
           existing ==
             \E other \in DOMAIN catalog \ {id} :
               /\ catalog[other].kind = kind
               /\ catalog[other].tenant = tenant
               /\ LowerCase(catalog[other].name) = LowerCase(body.name[1])
       IN  IF ~found THEN Finish(p, r, "404", <<>>)
           ELSE IF catalog[id].isSystem /\ SystemRowGuard(kind, body)
           THEN Finish(p, r, "400:system", <<>>)
           ELSE IF /\ TruthyString(body.name) /\ body.name[1] # catalog[id].name
                   /\ existing
           THEN Finish(p, r, "400:name", <<>>)
           ELSE Continue(p, [r EXCEPT !.pc = "save"])
  /\ UNCHANGED <<catalog, now, classes, students, structures, assignments,
                 payments, calc>>

\* category.save() / frequency.save(): the fields set are written, if the
\* row is still stored.
UpdateCatalogRowSave(p, op) ==
  /\ req[p].op = op /\ req[p].pc = "save"
  /\ LET r == req[p]
     IN  IF r.fs \in DOMAIN catalog
         THEN /\ catalog' = [catalog EXCEPT ![r.fs] = UpdatedRow(@, r.body)]
              /\ Finish(p, r, "200", <<>>)
         ELSE /\ UNCHANGED catalog
              /\ Finish(p, r, "400:error", <<>>)
  /\ UNCHANGED <<now, classes, students, structures, assignments, payments, calc>>

UpdateFeeCategoryFind(p) ==
  UpdateCatalogRowFind(p, "updateFeeCategory", "category")

UpdateFeeCategorySave(p) == UpdateCatalogRowSave(p, "updateFeeCategory")

UpdateFeeFrequencyFind(p) ==
  UpdateCatalogRowFind(p, "updateFeeFrequency", "frequency")

UpdateFeeFrequencySave(p) == UpdateCatalogRowSave(p, "updateFeeFrequency")

(***************************************************************************)
(* deleteFeeCategory and deleteFeeFrequency                                *)
(***************************************************************************)

\* Casting a string to an ObjectId, as a query on an ObjectId path does.  A
\* string that is neither 24 hex digits nor 12 characters never casts
\* (CastError); a string of 12 characters is taken as the 12 bytes of an id
\* by the drivers that accept one and fails with the others, and the
\* repository pins no version: both outcomes are possible.
TwelveCharacters == {"UNIFORM_FEES", "twice-yearly"}

CastsToObjectId(code) ==
  IF code \in TwelveCharacters THEN BOOLEAN ELSE {FALSE}

CastObjectId(code) ==
  IF code = "UNIFORM_FEES" THEN "oid:554e49464f524d5f46454553"
  ELSE "oid:74776963652d796561726c79"

\* canDelete(): countDocuments({ tenant: this.tenant, category: this.code })
\* (frequency: this.code for a frequency); casts tells whether the code
\* passed as the value of the ObjectId path casts.
CanDelete(row, casts) ==
  IF row.isSystem THEN "system"
  ELSE IF ~casts THEN "CastError"
  ELSE IF \E f \in DOMAIN structures :
            /\ structures[f].tenant = row.tenant
            /\ structures[f][row.kind] = CastObjectId(row.code)
       THEN "in use"
       ELSE "yes"

\* mongoose.startSession() of a delete request for a row of the kind
DeleteCatalogRowStart(p, op) ==
  /\ req[p].pc = "idle"
  /\ \E tenant \in Tenants, id \in DOMAIN InitCatalog :
       Continue(p, [IdleReq EXCEPT !.op = op, !.pc = "delete",
                                   !.tenant = tenant, !.fs = id])
  /\ UNCHANGED <<catalog, now, classes, students, structures, assignments,
                 payments, calc>>

\* findOne({ _id, tenant }), canDelete(), deleteOne() in the transaction
DeleteCatalogRow(p, op, kind) ==
  /\ req[p].op = op /\ req[p].pc = "delete"
  /\ LET r == req[p]
         found == /\ r.fs \in DOMAIN catalog
                  /\ catalog[r.fs].kind = kind
                  /\ catalog[r.fs].tenant = r.tenant
     IN  IF ~found
         THEN Finish(p, r, "404", <<>>) /\ UNCHANGED catalog
         ELSE \E casts \in CastsToObjectId(catalog[r.fs].code) :
                LET canDelete == CanDelete(catalog[r.fs], casts)
                IN  IF canDelete = "CastError"
                    THEN Finish(p, r, "400:error", <<>>) /\ UNCHANGED catalog
                    ELSE IF canDelete # "yes"
                    THEN Finish(p, r, "400:canDelete", <<>>)
                         /\ UNCHANGED catalog
                    ELSE /\ catalog' = [id \in DOMAIN catalog \ {r.fs} |->
                                          catalog[id]]
                         /\ Finish(p, r, "200", <<>>)
  /\ UNCHANGED <<now, classes, students, structures, assignments, payments, calc>>

DeleteFeeCategoryStart(p) == DeleteCatalogRowStart(p, "deleteFeeCategory")

DeleteFeeCategory(p) == DeleteCatalogRow(p, "deleteFeeCategory", "category")

DeleteFeeFrequencyStart(p) == DeleteCatalogRowStart(p, "deleteFeeFrequency")

DeleteFeeFrequency(p) == DeleteCatalogRow(p, "deleteFeeFrequency", "frequency")

(***************************************************************************)
(* The fee summaries.  Each loads its assignments with one find and adds   *)
(* them up in memory; the payment lists of the responses are left out.     *)
(***************************************************************************)
AcademicYears == {"", "2024-2025"}

\* FeeAssignment.find(query) with query = { tenant, academicYear? } and the
\* further condition on the student, in _id order.
RECURSIVE FindAssignments(_, _, _, _)
FindAssignments(tenant, academicYear, studentIds, i) ==
  IF i > Len(assignments) THEN <<>>
  ELSE LET rest == FindAssignments(tenant, academicYear, studentIds, i + 1)
       IN  IF /\ assignments[i].tenant = tenant
              /\ academicYear # "" => assignments[i].academicYear = academicYear
              /\ assignments[i].student \in studentIds
           THEN <<assignments[i]>> \o rest
           ELSE rest

\* The totals routed by the stored status, updateStatus() left out.
RECURSIVE SchoolTotalsStored(_, _)
SchoolTotalsStored(rows, today) ==
  IF rows = <<>> THEN [NoSummary EXCEPT !.level = "school"]
  ELSE LET assignment == rows[Len(rows)]
           pending == MathMax0(assignment.finalAmount - assignment.paidAmount)
           summary == SchoolTotalsStored(SubSeq(rows, 1, Len(rows) - 1), today)
       IN  [summary EXCEPT
              !.totalAssignments = @ + 1,
              !.totalExpected = @ + assignment.finalAmount,
              !.totalCollected = @ + assignment.paidAmount,
              !.totalOverdue = IF pending > 0 /\ assignment.status = OVERDUE
                               THEN @ + pending ELSE @,
              !.totalPending = IF pending > 0 /\ assignment.status # OVERDUE
                               THEN @ + pending ELSE @]

\* The loop of getSchoolFeeSummary: updateStatus(), calculatePendingAmount()
\* and the totals.
RECURSIVE SchoolTotals(_, _)
SchoolTotals(rows, today) ==
  IF rows = <<>> THEN [NoSummary EXCEPT !.level = "school"]
  ELSE LET assignment == WithUpdatedStatus(rows[Len(rows)], today)
           pending == CalculatePendingAmount(Num(assignment.finalAmount),
                                             Num(assignment.paidAmount))
           summary == SchoolTotals(SubSeq(rows, 1, Len(rows) - 1), today)
       IN  [summary EXCEPT
              !.totalAssignments = @ + 1,
              !.totalExpected = @ + assignment.finalAmount,
              !.totalCollected = @ + assignment.paidAmount,
              !.totalOverdue = IF pending > 0 /\ assignment.status = OVERDUE
                               THEN @ + pending ELSE @,
              !.totalPending = IF pending > 0 /\ assignment.status # OVERDUE
                               THEN @ + pending ELSE @]

\* The loops of getClassLevelSummary (pending = finalAmount - paidAmount) and
\* of getStudentLevelSummary (pending = Math.max(finalAmount - paid, 0)).
RECURSIVE LevelTotals(_, _, _)
LevelTotals(level, rows, today) ==
  IF rows = <<>> THEN [NoSummary EXCEPT !.level = level]
  ELSE LET assignment == WithUpdatedStatus(rows[Len(rows)], today)
           diff == assignment.finalAmount - assignment.paidAmount
           pending == IF level = "class" THEN diff ELSE MathMax0(diff)
           summary == LevelTotals(level, SubSeq(rows, 1, Len(rows) - 1), today)
       IN  [summary EXCEPT
              !.totalAssignments = @ + 1,
              !.totalExpected = @ + assignment.finalAmount,
              !.totalCollected = @ + assignment.paidAmount,
              !.totalPending =
                 IF assignment.status \in {PENDING, PARTIALLY_PAID}
                 THEN @ + pending ELSE @,
              !.totalOverdue = IF assignment.status = OVERDUE
                               THEN @ + pending ELSE @]

\* A summary whose loop saves each document it has updated.
SummarySaving(p, op, data) ==
  /\ req[p].pc = "idle"
  /\ resp' = [op |-> op, res |-> "200", created |-> <<>>, data |-> data]
  /\ assignments' = [i \in DOMAIN assignments |->
                       SaveAssignment(assignments[i], assignments[i],
                                      WithUpdatedStatus(assignments[i], now), now)]
  /\ UNCHANGED <<catalog, now, classes, students, structures, payments, req,
                 autoCalled, calc>>

\* What a summary leaves of the database: nothing is saved.
SummaryFrame(p, op, data) ==
  /\ req[p].pc = "idle"
  /\ resp' = [op |-> op, res |-> "200", created |-> <<>>, data |-> data]
  /\ UNCHANGED <<catalog, now, classes, students, structures, assignments, payments, req,
                 autoCalled, calc>>

\* getSchoolFeeSummary (also behind getFeeSummary)
GetSchoolFeeSummary(p) ==
  \E tenantId \in Tenants, academicYear \in AcademicYears :
    SummaryFrame(p, "getSchoolFeeSummary",
                 [SchoolTotals(FindAssignments(tenantId, academicYear, Students, 1),
                               now)
                    EXCEPT !.scope = <<tenantId, academicYear, "">>])

\* getClassFeeSummary: getClassLevelSummary for the active students of the
\* class
GetClassFeeSummary(p) ==
  \E tenantId \in Tenants, academicYear \in AcademicYears, classId \in ClassIds :
    LET studentIds == {s \in DOMAIN students : /\ students[s].class = classId
                                          /\ students[s].tenant = tenantId
                                          /\ students[s].isActive}
    IN  SummaryFrame(p, "getClassFeeSummary",
                     [LevelTotals("class",
                                  FindAssignments(tenantId, academicYear, studentIds, 1),
                                  now)
                        EXCEPT !.scope = <<tenantId, academicYear, classId>>])

\* getStudentFeeSummary: getStudentLevelSummary; without assignments the
\* answer is a message and no totals.
GetStudentFeeSummary(p) ==
  \E tenantId \in Tenants, academicYear \in AcademicYears, studentId \in DOMAIN students :
    SummaryFrame(p, "getStudentFeeSummary",
                 [LevelTotals("student",
                              FindAssignments(tenantId, academicYear, {studentId}, 1),
                              now)
                    EXCEPT !.scope = <<tenantId, academicYear, studentId>>])

(***************************************************************************)
(* deleteStudent and deleteClass (adminController)                         *)
(***************************************************************************)

\* Student.findOneAndUpdate({ _id, tenant }, { isActive: false })
DeleteStudent(p) ==
  /\ req[p].pc = "idle"
  /\ \E tenant \in Tenants, id \in DOMAIN students :
       LET r == [IdleReq EXCEPT !.op = "deleteStudent"]
       IN  IF students[id].tenant = tenant
           THEN /\ students' = [students EXCEPT ![id].isActive = FALSE]
                /\ Finish(p, r, "200", <<>>)
           ELSE /\ UNCHANGED students
                /\ Finish(p, r, "404", <<>>)
  /\ UNCHANGED <<catalog, now, classes, structures, assignments, payments, calc>>

\* A cancellation of every open assignment, whatever was paid.
CancelledWhateverPaid(row, tenantId, studentIds, today) ==
  IF /\ row.tenant = tenantId
     /\ row.student \in studentIds
     /\ row.status \in {PENDING, PARTIALLY_PAID, OVERDUE}
  THEN [row EXCEPT !.status = CANCELLED]
  ELSE row

\* The assignments deleteClass marks cancelled.
CancelledByDeleteClass(row, tenantId, studentIds, today) ==
  IF /\ row.tenant = tenantId
     /\ row.student \in studentIds
     /\ row.status \in {PENDING, PARTIALLY_PAID, OVERDUE}
     /\ row.paidAmount < 1
  THEN [row EXCEPT !.status = CANCELLED]
  ELSE row

\* deleteClass: one transaction
DeleteClass(p) ==
  /\ req[p].pc = "idle"
  /\ \E tenantId \in Tenants, classId \in DOMAIN classes :
       LET r == [IdleReq EXCEPT !.op = "deleteClass"]
           activeStudentsCount ==
             Cardinality({s \in DOMAIN students : /\ students[s].class = classId
                                           /\ students[s].tenant = tenantId
                                           /\ students[s].isActive})
           studentIds == {s \in DOMAIN students : /\ students[s].class = classId
                                           /\ students[s].tenant = tenantId}
           pendingFees ==
             Cardinality({i \in DOMAIN assignments :
                            /\ assignments[i].tenant = tenantId
                            /\ assignments[i].student \in studentIds
                            /\ assignments[i].status \in {PENDING, PARTIALLY_PAID}})
       IN  IF classes[classId].tenant # tenantId
           THEN /\ Finish(p, r, "404", <<>>)
                /\ UNCHANGED <<classes, structures, assignments>>
           ELSE IF activeStudentsCount > 0
           THEN /\ Finish(p, r, "400:students", <<>>)
                /\ UNCHANGED <<classes, structures, assignments>>
           ELSE IF pendingFees > 0
           THEN /\ Finish(p, r, "400:pending", <<>>)
                /\ UNCHANGED <<classes, structures, assignments>>
           ELSE /\ structures' = [f \in DOMAIN structures |->
                     [structures[f] EXCEPT !.classes = @ \ {classId}]]
                /\ assignments' = [i \in DOMAIN assignments |->
                     CancelledByDeleteClass(assignments[i], tenantId, studentIds, now)]
                /\ classes' = [classes EXCEPT ![classId].isActive = FALSE]
                /\ Finish(p, r, "200", <<>>)
  /\ UNCHANGED <<catalog, now, students, payments, calc>>

\* The feeStructure lists sent in the bodies of createClass and updateClass:
\* empty, of one id, and of two ids (the same id twice among them).
FeeStructureLists ==
  {<<>>} \cup {<<f>> : f \in Range(StructureIds)}
         \cup {<<StructureIds[1], g>> : g \in Range(StructureIds)}

\* FeeStructure.find({ _id: { $in: feeStructureIds }, tenant, isActive: true })
ValidFeeStructures(feeStructureIds, tenantId) ==
  {f \in Range(feeStructureIds) \cap DOMAIN structures :
     /\ structures[f].tenant = tenantId
     /\ structures[f].isActive}

\* What may stop createClass and updateClass apart from the feeStructure
\* list: the teachers of the body are not active teachers of the tenant, or
\* the write throws (validation, the unique index).
ClassFailures == {"none", "teachers", "error"}

\* createClass: one transaction.
CreateClass(p) ==
  /\ req[p].pc = "idle"
  /\ NewClassId \notin DOMAIN classes
  /\ \E tenantId \in Tenants, feeStructure \in FeeStructureLists,
        failure \in ClassFailures :
       LET r == [IdleReq EXCEPT !.op = "createClass", !.tenant = tenantId,
                                !.class = NewClassId]
           validFeeStructureIds == ValidFeeStructures(feeStructure, tenantId)
       IN  IF failure = "teachers"
           THEN /\ Finish(p, r, "400:teachers", <<>>)
                /\ UNCHANGED <<classes, structures>>
           ELSE IF /\ Len(feeStructure) > 0
                   /\ Cardinality(validFeeStructureIds) # Len(feeStructure)
           THEN /\ Finish(p, r, "400:feeStructures", <<>>)
                /\ UNCHANGED <<classes, structures>>
           ELSE IF failure = "error"
           THEN /\ Finish(p, r, "400:error", <<>>)
                /\ UNCHANGED <<classes, structures>>
           ELSE /\ classes' =
                     [c \in DOMAIN classes \cup {NewClassId} |->
                        IF c = NewClassId
                        THEN [tenant |-> tenantId, isActive |-> TRUE,
                              feeStructure |-> validFeeStructureIds]
                        ELSE classes[c]]
                /\ structures' =
                     [f \in DOMAIN structures |->
                        IF f \in validFeeStructureIds
                        THEN [structures[f] EXCEPT !.classes = @ \cup {NewClassId}]
                        ELSE structures[f]]
                /\ Finish(p, r, "201", <<>>)
  /\ UNCHANGED <<catalog, now, students, assignments, payments, calc>>

\* The bodies of updateClass: feeStructure and isActive are absent (<<>>) or
\* present.
ClassBodies ==
  [feeStructure : {<<>>} \cup {<<list>> : list \in FeeStructureLists},
   isActive : {<<>>, <<TRUE>>, <<FALSE>>}]

\* updateClass: one transaction.  Class.findOne({ _id, tenant }) has no
\* isActive filter, and updateData = { ...req.body } carries every field of
\* the body into findOneAndUpdate.
UpdateClass(p) ==
  /\ req[p].pc = "idle"
  /\ \E tenantId \in Tenants, classId \in DOMAIN classes, body \in ClassBodies,
        failure \in ClassFailures :
       LET r == [IdleReq EXCEPT !.op = "updateClass", !.tenant = tenantId,
                                !.class = classId]
           listed == ~IsUndefined(body.feeStructure)
           feeStructure == IF listed THEN body.feeStructure[1] ELSE <<>>
           validFeeStructureIds == ValidFeeStructures(feeStructure, tenantId)
       IN  IF classes[classId].tenant # tenantId
           THEN /\ Finish(p, r, "404", <<>>)
                /\ UNCHANGED <<classes, structures>>
           ELSE IF failure = "teachers"
           THEN /\ Finish(p, r, "400:teachers", <<>>)
                /\ UNCHANGED <<classes, structures>>
           ELSE IF /\ listed
                   /\ Len(feeStructure) > 0
                   /\ Cardinality(validFeeStructureIds) # Len(feeStructure)
           THEN /\ Finish(p, r, "400:feeStructures", <<>>)
                /\ UNCHANGED <<classes, structures>>
           ELSE IF failure = "error"
           THEN /\ Finish(p, r, "400:error", <<>>)
                /\ UNCHANGED <<classes, structures>>
           ELSE /\ structures' =
                     IF listed
                     THEN [f \in DOMAIN structures |->
                             [structures[f] EXCEPT !.classes =
                                (@ \ {classId}) \cup
                                (IF f \in validFeeStructureIds
                                 THEN {classId} ELSE {})]]
                     ELSE structures
                /\ classes' =
                     [classes EXCEPT
                        ![classId].feeStructure =
                           IF listed THEN validFeeStructureIds ELSE @,
                        ![classId].isActive =
                           IF IsUndefined(body.isActive) THEN @
                           ELSE body.isActive[1]]
                /\ Finish(p, r, "200", <<>>)
  /\ UNCHANGED <<catalog, now, students, assignments, payments, calc>>

(***************************************************************************)
(* Specifications.                                                         *)
(***************************************************************************)
PaymentStep(p) ==
  \/ RecordFeePaymentFind(p)
  \/ RecordFeePaymentCount(p)
  \/ RecordFeePaymentInsert(p)
  \/ RecordFeePaymentSave(p)

AssignStep(p) ==
  \/ AssignFeeToStudentFind(p)
  \/ AssignFeeToStudentExists(p)
  \/ AssignFeeToStudentCreate(p)
  \/ AutoAssignClassFeesFind(p)
  \/ AutoAssignClassFeesExists(p)
  \/ AutoAssignClassFeesCreate(p)

CreateStep(p) ==
  \/ CreateStudentStart(p)
  \/ CreateStudentClass(p)
  \/ CreateStudentFind(p)
  \/ AutoAssignClassFeesExists(p)
  \/ AutoAssignClassFeesCreate(p)
  \/ CreateStudentThrows(p)
  \/ CreateStudentDiscount(p)
  \/ CreateStudentCommit(p)

FeesStep(p) ==
  \/ GetStudentFeesFind(p)
  \/ GetStudentFeesSave(p)

AdminStep(p) ==
  \/ DeleteStudent(p)
  \/ DeleteClass(p)

ClassStep(p) ==
  \/ CreateClass(p)
  \/ UpdateClass(p)

StructureStep(p) ==
  \/ CreateFeeStructureAuth(p)
  \/ CreateFeeStructure(p)
  \/ UpdateFeeStructureFind(p)
  \/ UpdateFeeStructureUpdate(p)
  \/ DeleteFeeStructureFind(p)
  \/ DeleteFeeStructureUpdate(p)

CatalogStep(p) ==
  \/ DeleteFeeCategoryStart(p)
  \/ DeleteFeeCategory(p)
  \/ DeleteFeeFrequencyStart(p)
  \/ DeleteFeeFrequency(p)

DefaultsStep(p) ==
  \/ InitializeDefaultCategoriesStart(p)
  \/ InitializeDefaultCategoriesCount(p)
  \/ InitializeDefaultCategoriesCreate(p)
  \/ InitializeDefaultFrequenciesStart(p)
  \/ InitializeDefaultFrequenciesCount(p)
  \/ InitializeDefaultFrequenciesCreate(p)

CatalogUpdateStep(p) ==
  \/ UpdateFeeCategoryFind(p)
  \/ UpdateFeeCategorySave(p)
  \/ UpdateFeeFrequencyFind(p)
  \/ UpdateFeeFrequencySave(p)

SummaryStep(p) ==
  \/ GetSchoolFeeSummary(p)
  \/ GetClassFeeSummary(p)
  \/ GetStudentFeeSummary(p)

\* No other request is running.
Alone(p) == \A q \in Procs \ {p} : req[q].pc = "idle"

\* The whole system: requests arrive at any time and interleave at their
\* awaits.  The specifications below are the parts of it the properties are
\* checked on: each starts in a state the whole system reaches and takes
\* steps of the whole system.
Next ==
  \/ Tick
  \/ \E p \in Procs : \/ PaymentStep(p) \/ AssignStep(p) \/ FeesStep(p)
                       \/ AdminStep(p) \/ SummaryStep(p) \/ StructureStep(p)
                       \/ CatalogStep(p) \/ CreateStep(p)
                       \/ CatalogUpdateStep(p) \/ DefaultsStep(p)
                       \/ ClassStep(p)

Spec == Init /\ [][Next]_vars

\* Fee assignment: assignFeeToStudent and autoAssignClassFees requests on an
\* empty FeeAssignment collection, interleaved ...
NextAssign == Tick \/ \E p \in Procs : AssignStep(p)

SpecAssign == Init /\ [][NextAssign]_vars

\* ... and one after the other.
NextAssignSeq == Tick \/ \E p \in Procs : Alone(p) /\ AssignStep(p)

SpecAssignSeq == Init /\ [][NextAssignSeq]_vars

\* Payment recording.  The fees are assigned: student s1 of tenant tA has fee
\* f1 (with any of the discounts), student s2 of tenant tB has fee f3.
InitPay ==
  /\ now = StartInstant
  /\ classes = InitClasses
  /\ students = InitStudents
  /\ structures = InitStructures
  /\ catalog = InitCatalog
  /\ \E discount \in DiscountAmounts :
       assignments =
         << NewAssignment("tA", "s1", "f1", InitStructures["f1"], discount,
                          InitStructures["f1"].dueDate, StartInstant),
            NewAssignment("tB", "s2", "f3", InitStructures["f3"], 0,
                          InitStructures["f3"].dueDate, StartInstant) >>
  /\ payments = <<>>
  /\ req = [p \in Procs |-> IdleReq]
  /\ resp = NoResponse
  /\ autoCalled = {}
  /\ calc = NoCalc

\* recordFeePayment requests, interleaved ...
NextPay == Tick \/ \E p \in Procs : PaymentStep(p)

SpecPay == InitPay /\ [][NextPay]_vars

\* ... and one after the other.
NextPaySeq == Tick \/ \E p \in Procs : Alone(p) /\ PaymentStep(p)

SpecPaySeq == InitPay /\ [][NextPaySeq]_vars

\* The life of the assigned fees: payments, getStudentFees, and the deletion
\* of students and classes, one request after the other.
NextLife ==
  \/ Tick
  \/ \E p \in Procs : Alone(p) /\ (PaymentStep(p) \/ FeesStep(p) \/ AdminStep(p))

SpecLife == InitPay /\ [][NextLife]_vars

\* The fee summaries.  Student s1 of tenant tA has fee f1 (with any of the
\* discounts) and a second fee is assigned: f2 to s1, or f3 to s2 of tenant tB.
InitSummary ==
  /\ now = StartInstant
  /\ classes = InitClasses
  /\ students = InitStudents
  /\ structures = InitStructures
  /\ catalog = InitCatalog
  /\ \E discount \in DiscountAmounts, second \in {<<"tA", "s1", "f2">>,
                                                  <<"tB", "s2", "f3">>} :
       assignments =
         << NewAssignment("tA", "s1", "f1", InitStructures["f1"], discount,
                          InitStructures["f1"].dueDate, StartInstant),
            NewAssignment(second[1], second[2], second[3],
                          InitStructures[second[3]], 0,
                          InitStructures[second[3]].dueDate, StartInstant) >>
  /\ payments = <<>>
  /\ req = [p \in Procs |-> IdleReq]
  /\ resp = NoResponse
  /\ autoCalled = {}
  /\ calc = NoCalc

\* Summaries between payments, one request after the other, with at most
\* MaxSummaryPayments payment requests accepted ...
NextSummary ==
  \/ Tick
  \/ \E p \in Procs :
       /\ Alone(p)
       /\ \/ /\ req[p].pc = "idle" => Len(payments) < MaxSummaryPayments
             /\ PaymentStep(p)
          \/ SummaryStep(p)

SpecSummary == InitSummary /\ [][NextSummary]_vars

\* ... and summaries of fees that getStudentFees has updated and the
\* deletion of a class has cancelled.
NextCancel ==
  \/ Tick
  \/ \E p \in Procs : Alone(p) /\ (FeesStep(p) \/ AdminStep(p) \/ SummaryStep(p))

SpecCancel == InitSummary /\ [][NextCancel]_vars

\* The fee structures: requests of both tenants to create, update and delete
\* them, one after the other.
NextStructure == \E p \in Procs : Alone(p) /\ StructureStep(p)

SpecStructure == Init /\ [][NextStructure]_vars

\* The schools before their default categories and frequencies are
\* initialised: tenant tA has its custom rows, and tenant tB has none or a
\* custom category with the code of a default one.
InitDefaults ==
  /\ now = StartInstant
  /\ classes = InitClasses
  /\ students = InitStudents
  /\ structures = InitStructures
  /\ \E clash \in BOOLEAN :
       catalog =
         [id \in {i \in DOMAIN InitCatalog : ~InitCatalog[i].isSystem}
                 \cup (IF clash THEN {"oid:library-b"} ELSE {}) |->
            IF id = "oid:library-b"
            THEN [kind |-> "category", tenant |-> "tB", code |-> "LIBRARY",
                  isSystem |-> FALSE, name |-> "Books", description |-> "",
                  monthsInterval |-> 0, displayOrder |-> 999, isActive |-> TRUE]
            ELSE InitCatalog[id]]
  /\ assignments = <<>>
  /\ payments = <<>>
  /\ req = [p \in Procs |-> IdleReq]
  /\ resp = NoResponse
  /\ autoCalled = {}
  /\ calc = NoCalc

\* Interleaved requests of both tenants to initialise the defaults.
NextDefaults == \E p \in Procs : DefaultsStep(p)

SpecDefaults == InitDefaults /\ [][NextDefaults]_vars

\* The classes: createClass, updateClass and deleteClass requests, each one
\* transaction, in any order.
NextClass == \E p \in Procs : ClassStep(p) \/ DeleteClass(p)

SpecClass == Init /\ [][NextClass]_vars

\* The fee categories and frequencies: requests to update the system
\* category and the system frequency, one after the other.
UpdatedRows == {"oid:tuition", "oid:monthly"}

NextCatalogUpdate ==
  \E p \in Procs :
    /\ Alone(p)
    /\ CatalogUpdateStep(p)
    /\ req'[p].pc # "idle" => req'[p].fs \in UpdatedRows

SpecCatalogUpdate == Init /\ [][NextCatalogUpdate]_vars

\* The deletion of students and classes whose fees are paid, left unpaid
\* or overdue: payment requests, one of them accepted, interleave with
\* getStudentFees and the deletions.
Payer == CHOOSE p \in Procs : TRUE

NextDelete ==
  \/ Tick
  \/ /\ req[Payer].pc = "idle" => payments = <<>>
     /\ PaymentStep(Payer)
  \/ \E p \in Procs \ {Payer} : FeesStep(p) \/ AdminStep(p)

SpecDelete == InitPay /\ [][NextDelete]_vars

\* The creation of a student.
NextCreate == Tick \/ \E p \in Procs : CreateStep(p)

SpecCreate == Init /\ [][NextCreate]_vars

\* Fees assigned while fee structures are deleted, one request after the
\* other.
NextInactive ==
  \E p \in Procs :
    /\ Alone(p)
    /\ (AssignStep(p) \/ DeleteFeeStructureFind(p) \/ DeleteFeeStructureUpdate(p))

SpecInactive == Init /\ [][NextInactive]_vars

\* The fee categories and frequencies: interleaved requests of both tenants
\* to delete them.
NextCatalog == \E p \in Procs : CatalogStep(p)

SpecCatalog == Init /\ [][NextCatalog]_vars

\* The instance methods of a FeeAssignment document, on documents with any
\* stored amounts.
JsValues == {Undefined} \cup {Num(n) : n \in JsAmounts}

InitFn ==
  /\ now = StartInstant
  /\ classes = InitClasses
  /\ students = InitStudents
  /\ structures = InitStructures
  /\ catalog = InitCatalog
  /\ assignments = <<>>
  /\ payments = <<>>
  /\ req = [p \in Procs |-> IdleReq]
  /\ resp = NoResponse
  /\ autoCalled = {}
  /\ calc \in {[NoCalc EXCEPT !.paidAmount = pa, !.finalAmount = fa,
                              !.dueDate = d, !.today = t] :
                 pa \in JsValues, fa \in JsValues, d \in {80}, t \in Instants}

ApplyUpdateStatus ==
  /\ calc.fn = "none"
  /\ calc' = [calc EXCEPT !.fn = "updateStatus",
                          !.status = UpdateStatus(calc.paidAmount, calc.finalAmount,
                                                  calc.dueDate, calc.today)]
  /\ UNCHANGED <<catalog, now, classes, students, structures, assignments, payments, req,
                 resp, autoCalled>>

ApplyCalculatePendingAmount ==
  /\ calc.fn = "none"
  /\ calc' = [calc EXCEPT !.fn = "calculatePendingAmount",
                          !.out = CalculatePendingAmount(calc.finalAmount,
                                                         calc.paidAmount)]
  /\ UNCHANGED <<catalog, now, classes, students, structures, assignments, payments, req,
                 resp, autoCalled>>

NextFn == ApplyUpdateStatus \/ ApplyCalculatePendingAmount

SpecFn == InitFn /\ [][NextFn]_vars

\* calculateDueDate for the frequency codes (and the id of a FeeFrequency
\* row, which is what a FeeStructure holds), days of the month and instants:
\* midnight and noon of the 5th and the 15th of every month of the first
\* year.
Frequencies ==
  {"one-time", "monthly", "quarterly", "half-yearly", "yearly", "oid:monthly"}

DueDateDays == {1, 10, 31}

ReferenceDates ==
  {NewDate(BaseYear, m, d) + h : m \in 0..11, d \in {5, 15}, h \in {0, 1}}

InitDue ==
  /\ now = StartInstant
  /\ classes = InitClasses
  /\ students = InitStudents
  /\ structures = InitStructures
  /\ catalog = InitCatalog
  /\ assignments = <<>>
  /\ payments = <<>>
  /\ req = [p \in Procs |-> IdleReq]
  /\ resp = NoResponse
  /\ autoCalled = {}
  /\ calc \in {[NoCalc EXCEPT !.frequency = f, !.dueDateDay = d, !.today = t] :
                 f \in Frequencies, d \in DueDateDays, t \in ReferenceDates}

ApplyCalculateDueDate ==
  /\ calc.fn = "none"
  /\ calc' = [calc EXCEPT !.fn = "calculateDueDate",
                          !.out = CalculateDueDate(calc.frequency, calc.dueDateDay,
                                                   calc.today)]
  /\ UNCHANGED <<catalog, now, classes, students, structures, assignments, payments, req,
                 resp, autoCalled>>

NextDue == ApplyCalculateDueDate

SpecDue == InitDue /\ [][NextDue]_vars

(***************************************************************************)
(* Properties.                                                             *)
(***************************************************************************)

\* The payments recorded against assignment i.
PaymentsOf(i) == {k \in DOMAIN payments : payments[k].feeAssignment = i}

C2_ExcessRejected ==
  /\ [](\A p \in Procs :
          (req[p].op = "recordFeePayment" /\ req[p].pc # "idle") =>
            req[p].amount <= req[p].orig.finalAmount - req[p].orig.paidAmount)
  /\ [][(resp' # resp /\ resp'.res = "400:exceeds") =>
          (assignments' = assignments /\ payments' = payments)]_vars

\* C2, witness: a payment was rejected as exceeding what remained of a partly
\* paid assignment.
C2_Witness ==
  /\ resp.op = "recordFeePayment" /\ resp.res = "400:exceeds"
  /\ \E i \in DOMAIN assignments :
       /\ assignments[i].paidAmount > 0
       /\ assignments[i].paidAmount < assignments[i].finalAmount

\* C3: at most one FeeAssignment exists per (tenant, student, feeStructure,
\* academicYear), however assignFeeToStudent and autoAssignClassFees
\* requests interleave.
C3_AtMostOnePerTuple ==
  \A i, j \in DOMAIN assignments :
    ( /\ assignments[i].tenant = assignments[j].tenant
      /\ assignments[i].student = assignments[j].student
      /\ assignments[i].feeStructure = assignments[j].feeStructure
      /\ assignments[i].academicYear = assignments[j].academicYear ) => i = j

\* The autoAssignClassFees call slot p runs before or after a step, if any.
AutoAssignCall(p) ==
  IF req[p].op = "autoAssignClassFees" THEN req[p] ELSE req'[p]

\* C4: a second autoAssignClassFees call for the same student, class and
\* tenant, made after the first has returned and with the fee structures
\* unchanged, creates no assignment (no step of it changes the FeeAssignment
\* collection) and returns an empty list.
C4_AutoAssignIdempotent ==
  [][\A p \in Procs :
       ( /\ AutoAssignCall(p).op = "autoAssignClassFees"
         /\ AutoAssignCall(p).student \in autoCalled ) =>
           /\ assignments' = assignments
           /\ req'[p].pc = "idle" => resp'.created = <<>>]_vars

\* C4, witness: a second call for a student of a class with two fee
\* structures, both assigned, has found the first assigned and is at the
\* second.
C4_Witness ==
  \E p \in Procs :
    /\ req[p].op = "autoAssignClassFees" /\ req[p].pc = "exists"
    /\ req[p].student \in autoCalled
    /\ Len(req[p].queue) = 1 /\ req[p].created = <<>>
    /\ Cardinality({i \in DOMAIN assignments :
                      assignments[i].student = req[p].student}) = 2

\* The number a stored amount counts as: a non-numeric value counts as 0.
NumberOf(v) == IF IsNumber(v) THEN v.n ELSE 0

\* C5, as stated: on numeric amounts updateStatus() sets paid when
\* paidAmount >= finalAmount, overdue when paidAmount < finalAmount and
\* dueDate < today, partially_paid when 0 < paidAmount < finalAmount and
\* dueDate >= today, and pending when paidAmount = 0 and dueDate >= today.
C5_TableAsStated ==
  ( /\ calc.fn = "updateStatus"
    /\ IsNumber(calc.paidAmount) /\ IsNumber(calc.finalAmount) ) =>
    LET paidAmount == calc.paidAmount.n
        finalAmount == calc.finalAmount.n
    IN  /\ paidAmount >= finalAmount => calc.status = PAID
        /\ (paidAmount < finalAmount /\ calc.dueDate < calc.today) =>
             calc.status = OVERDUE
        /\ ( /\ 0 < paidAmount /\ paidAmount < finalAmount
             /\ calc.dueDate >= calc.today ) => calc.status = PARTIALLY_PAID
        /\ (paidAmount = 0 /\ calc.dueDate >= calc.today) =>
             calc.status = PENDING

\* C5, amended: with a non-numeric paidAmount counting as 0, updateStatus()
\* sets paid when finalAmount is a number and paidAmount >= finalAmount;
\* otherwise overdue when dueDate < today; otherwise partially_paid when
\* paidAmount > 0 and pending when paidAmount <= 0. The pending row applies
\* only below finalAmount: paidAmount = 0 with finalAmount <= 0 is paid.
C5_StatusTable ==
  calc.fn = "updateStatus" =>
    LET paidAmount == NumberOf(calc.paidAmount)
        reached == IsNumber(calc.finalAmount) /\ paidAmount >= calc.finalAmount.n
    IN  /\ reached => calc.status = PAID
        /\ (~reached /\ calc.dueDate < calc.today) => calc.status = OVERDUE
        /\ (~reached /\ calc.dueDate >= calc.today /\ paidAmount > 0) =>
             calc.status = PARTIALLY_PAID
        /\ (~reached /\ calc.dueDate >= calc.today /\ paidAmount <= 0) =>
             calc.status = PENDING

\* C5, witness: updateStatus() has set overdue on a part payment past its due
\* date.
C5_Witness ==
  /\ calc.fn = "updateStatus" /\ calc.status = OVERDUE
  /\ IsNumber(calc.paidAmount) /\ IsNumber(calc.finalAmount)
  /\ calc.paidAmount.n > 0 /\ calc.paidAmount.n < calc.finalAmount.n
  /\ calc.dueDate < calc.today

\* The status derivation table on stored (numeric) amounts.
StatusTable(paidAmount, finalAmount, dueDate, today) ==
  IF paidAmount >= finalAmount THEN PAID
  ELSE IF dueDate < today THEN OVERDUE
  ELSE IF paidAmount > 0 THEN PARTIALLY_PAID
  ELSE PENDING

\* C6: the step of recordFeePayment that saves the assignment and answers
\* 201 leaves stored the status the derivation table gives for the stored
\* paidAmount, finalAmount and dueDate at that time; a part payment past the
\* due date is stored as overdue.
C6_StoredStatusIsDerived ==
  [][\A p \in Procs :
       ( /\ req[p].op = "recordFeePayment" /\ req[p].pc = "save"
         /\ req'[p].pc = "idle" ) =>
           LET a == assignments'[req[p].asg]
           IN  a.status = StatusTable(a.paidAmount, a.finalAmount, a.dueDate, now)]_vars

\* C7: a FeeAssignment whose stored status is cancelled keeps that status in
\* every later step.
C7_CancelledIsTerminal ==
  [][\A i \in DOMAIN assignments :
       assignments[i].status = CANCELLED =>
         assignments'[i].status = CANCELLED]_vars

\* C8: the receiptNumber values of the FeePayment rows of one tenant are
\* pairwise distinct, also when recordFeePayment requests interleave.
C8_ReceiptsDistinct ==
  \A i, j \in DOMAIN payments :
    ( /\ payments[i].tenant = payments[j].tenant
      /\ payments[i].receiptNumber = payments[j].receiptNumber ) => i = j

\* C8, witness: two requests of one tenant counted the same number of
\* payments; one has stored its payment under the receipt number the other
\* is about to insert.
C8_Witness ==
  \E p, q \in Procs :
    /\ req[p].op = "recordFeePayment" /\ req[p].pc = "insert"
    /\ req[q].op = "recordFeePayment" /\ req[q].pc = "save"
    /\ req[p].tenant = req[q].tenant /\ req[p].count = req[q].count
    /\ payments[req[q].payment].receiptNumber
         = ReceiptNumber(GetFullYear(now), req[p].count)

\* C9: the paidAmount of every assignment is >= 0, whatever integer amounts
\* recordFeePayment is called with.
C9_PaidAmountNonNegative ==
  \A i \in DOMAIN assignments : assignments[i].paidAmount >= 0

\* C10: calculatePendingAmount() returns max(finalAmount - paidAmount, 0)
\* with a non-numeric amount counting as 0, and never a negative number.
C10_PendingAmount ==
  calc.fn = "calculatePendingAmount" =>
    LET diff == NumberOf(calc.finalAmount) - NumberOf(calc.paidAmount)
    IN  /\ calc.out = (IF diff >= 0 THEN diff ELSE 0)
        /\ calc.out >= 0

\* C10, witness: the pending amount of an assignment paid beyond its
\* finalAmount is 0.
C10_Witness ==
  /\ calc.fn = "calculatePendingAmount"
  /\ IsNumber(calc.paidAmount) /\ IsNumber(calc.finalAmount)
  /\ calc.paidAmount.n > calc.finalAmount.n
  /\ calc.out = 0

\* The sum of the amounts of the payments k .. Len(payments) recorded against
\* assignment i.
RECURSIVE SumOfPayments(_, _)
SumOfPayments(i, k) ==
  IF k > Len(payments) THEN 0
  ELSE (IF payments[k].feeAssignment = i THEN payments[k].amount ELSE 0)
         + SumOfPayments(i, k + 1)

\* C11: when a recordFeePayment request loads an assignment that another
\* request has loaded and nothing has saved since, it reads the paidAmount
\* the other read, and the amount of each passes the check against what
\* remained as read; once both have inserted, two FeePayment rows of that
\* assignment are stored.  The amounts of the stored payments of an
\* assignment can then sum to more than its finalAmount (the witness).
C11_RacingPaymentsBothPass ==
  [][\A p, q \in Procs :
       /\ ( /\ p # q
            /\ req[p].op = "recordFeePayment"
            /\ req[p].pc \in {"count", "insert", "save"}
            /\ req[p].orig.paidAmount = assignments[req[p].asg].paidAmount
            /\ req[q].pc = "idle"
            /\ req'[q].op = "recordFeePayment" /\ req'[q].pc = "count"
            /\ req'[q].asg = req[p].asg ) =>
              /\ req'[q].orig.paidAmount = req[p].orig.paidAmount
              /\ req'[q].amount <=
                   req'[q].orig.finalAmount - req[p].orig.paidAmount
              /\ req[p].amount <=
                   req[p].orig.finalAmount - req[p].orig.paidAmount
       /\ ( /\ p # q
            /\ req'[p].op = "recordFeePayment" /\ req'[p].pc = "save"
            /\ req'[q].op = "recordFeePayment" /\ req'[q].pc = "save"
            /\ req'[p].asg = req'[q].asg ) =>
              /\ req'[p].payment # req'[q].payment
              /\ payments'[req'[p].payment].feeAssignment = req'[p].asg
              /\ payments'[req'[p].payment].amount = req'[p].amount]_vars

\* C11, witness: two payments, each within the finalAmount, are stored for
\* one assignment and sum to more than its finalAmount.
C11_Witness ==
  \E i \in DOMAIN assignments :
    /\ Cardinality(PaymentsOf(i)) = 2
    /\ \A k \in PaymentsOf(i) :
         payments[k].amount > 0 /\ payments[k].amount <= assignments[i].finalAmount
    /\ SumOfPayments(i, 1) > assignments[i].finalAmount

\* The assignFeeToStudent request of slot p, before or after a step.
AssignCall(p) == IF req[p].op = "assignFeeToStudent" THEN req[p] ELSE req'[p]

\* C12: an assignFeeToStudent request, made when requests run one after the
\* other, for a fee structure that is not of the caller's tenant is answered
\* 404 at once; one made while a FeeAssignment with the same tenant, student,
\* feeStructure and academicYear of the structure exists is answered 400
\* "already assigned"; and no step of either changes the FeeAssignment
\* collection.
C12_AssignRejections ==
  [][\A p \in Procs :
       (AssignCall(p).op = "assignFeeToStudent" /\ req'[p] # req[p]) =>
         LET r == AssignCall(p)
             missing == structures[r.fs].tenant # r.tenant
             assigned == \E i \in DOMAIN assignments :
                           /\ assignments[i].tenant = r.tenant
                           /\ assignments[i].student = r.student
                           /\ assignments[i].feeStructure = r.fs
                           /\ assignments[i].academicYear
                                = structures[r.fs].academicYear
         IN  /\ missing => /\ req'[p].pc = "idle" /\ resp'.res = "404"
                           /\ assignments' = assignments
             /\ (~missing /\ assigned) =>
                  /\ assignments' = assignments
                  /\ req'[p].pc = "idle" => resp'.res = "400:assigned"]_vars

\* C12, witness: a request for an assigned fee structure was answered
\* "already assigned", the one row of the tuple being stored.
C12_Witness ==
  /\ resp.op = "assignFeeToStudent" /\ resp.res = "400:assigned"
  /\ \A p \in Procs : req[p].pc = "idle"
  /\ Len(assignments) = 1

\* C13: the step of assignFeeToStudent that creates the FeeAssignment stores
\* it with totalAmount equal to the amount of the fee structure as loaded and
\* finalAmount = totalAmount - discount.amount, the discount being 0 when
\* none is given.
C13_FinalAmountIsDiscounted ==
  [][\A p \in Procs :
       ( /\ req[p].op = "assignFeeToStudent" /\ req[p].pc = "create"
         /\ req'[p].pc = "idle" ) =>
           /\ Len(assignments') = Len(assignments) + 1
           /\ LET a == assignments'[Len(assignments')]
              IN  /\ a.totalAmount = structures[req[p].fs].amount
                  /\ a.discount = req[p].discount
                  /\ a.finalAmount = a.totalAmount - req[p].discount]_vars

\* C13, witness: assignFeeToStudent has stored an assignment with a discount
\* below the amount of its fee structure.
C13_Witness ==
  /\ resp.op = "assignFeeToStudent" /\ resp.res = "201"
  /\ LET a == assignments[resp.created[1]]
     IN  /\ a.discount > 0 /\ a.discount < a.totalAmount
         /\ a.finalAmount = a.totalAmount - a.discount
         /\ a.totalAmount = structures[a.feeStructure].amount

\* C14: every FeeAssignment that assignFeeToStudent or autoAssignClassFees
\* creates is stored with status pending.
C14_CreatedPending ==
  [][Len(assignments') > Len(assignments) =>
       assignments'[Len(assignments')].status = PENDING]_vars

SummaryOps == {"getSchoolFeeSummary", "getClassFeeSummary", "getStudentFeeSummary"}

\* A step that is a summary request: it answers, runs in one piece and takes
\* no time.
SummaryAnswered == resp'.op \in SummaryOps /\ req' = req /\ now' = now

\* The assignments a summary is about: those of its tenant, of its academic
\* year if it names one, and of the active students of its class or of its
\* student.
InScope(data) ==
  {i \in DOMAIN assignments :
     /\ assignments[i].tenant = data.scope[1]
     /\ data.scope[2] # "" => assignments[i].academicYear = data.scope[2]
     /\ data.level = "class" =>
          /\ students[assignments[i].student].class = data.scope[3]
          /\ students[assignments[i].student].tenant = data.scope[1]
          /\ students[assignments[i].student].isActive
     /\ data.level = "student" => assignments[i].student = data.scope[3]}

\* What assignment i adds to a total at time today.
Share(i, total, today) ==
  LET a == assignments[i]
      status == StatusTable(a.paidAmount, a.finalAmount, a.dueDate, today)
      pending == IF a.finalAmount > a.paidAmount
                 THEN a.finalAmount - a.paidAmount ELSE 0
  IN  CASE total = "totalExpected" -> a.finalAmount
        [] total = "totalCollected" -> a.paidAmount
        [] total = "totalOverdue" -> IF status = OVERDUE THEN pending ELSE 0
        [] total = "totalPending" -> IF status # OVERDUE THEN pending ELSE 0

RECURSIVE TotalOf(_, _, _)
TotalOf(I, total, today) ==
  IF I = {} THEN 0
  ELSE LET i == CHOOSE x \in I : TRUE
       IN  Share(i, total, today) + TotalOf(I \ {i}, total, today)

\* The totals of a summary are those of the assignments I.
TotalsAre(data, I, today) ==
  /\ data.totalAssignments = Cardinality(I)
  /\ \A total \in {"totalExpected", "totalCollected", "totalOverdue",
                    "totalPending"} : data[total] = TotalOf(I, total, today)

\* C15: in the answer of getSchoolFeeSummary, over the assignments of the
\* tenant (and academic year) it iterates, totalExpected is the sum of
\* finalAmount, totalCollected the sum of paidAmount, and each pending amount
\* max(finalAmount - paidAmount, 0) is added to totalOverdue when the status
\* derived at that time is overdue and to totalPending otherwise.
C15_SchoolSummaryTotals ==
  [][(SummaryAnswered /\ resp'.op = "getSchoolFeeSummary") =>
       TotalsAre(resp'.data, InScope(resp'.data), now)]_vars

\* C15, witness: the school summary over two assignments, one paid in full
\* and one unpaid and overdue: what is expected is what is collected plus
\* what is overdue, and nothing is pending.
C15_Witness ==
  /\ resp.op = "getSchoolFeeSummary"
  /\ resp.data.totalAssignments = 2
  /\ resp.data.totalCollected > 0 /\ resp.data.totalOverdue > 0
  /\ resp.data.totalPending = 0
  /\ resp.data.totalExpected = resp.data.totalCollected + resp.data.totalOverdue
  /\ \E i, j \in DOMAIN assignments :
       /\ assignments[i].paidAmount = assignments[i].finalAmount
       /\ assignments[j].paidAmount = 0
       /\ resp.data.totalCollected = assignments[i].finalAmount
       /\ resp.data.totalOverdue = assignments[j].finalAmount

\* C16: the totals and the count of every summary are those of the
\* assignments in its scope whose stored status is not cancelled.
C16_SummariesSkipCancelled ==
  [][SummaryAnswered =>
       TotalsAre(resp'.data,
                 {i \in InScope(resp'.data) : assignments[i].status # CANCELLED},
                 now)]_vars

\* C17: a summary request leaves every FeeAssignment, FeePayment and
\* FeeStructure row as it was.
C17_SummariesReadOnly ==
  [][SummaryAnswered =>
       /\ assignments' = assignments
       /\ payments' = payments
       /\ structures' = structures]_vars

\* C17, witness: a school summary has counted an amount as overdue while no
\* assignment is stored as overdue.
C17_Witness ==
  /\ resp.op = "getSchoolFeeSummary" /\ resp.data.totalOverdue > 0
  /\ \A i \in DOMAIN assignments :
       /\ assignments[i].status = PENDING
       /\ assignments[i].dueDate < now

\* The midnight of day d of a month (months past December being those of the
\* next year): the set of that one instant, empty if the month has no such
\* day.
TheDay(year, month, d) ==
  LET y == year + (month \div 12)
      m == month % 12
  IN  IF d <= DaysInMonth(y, m)
      THEN {2 * (DaysBeforeYear(y) + DaysBeforeMonth(y, m) + d - 1)}
      ELSE {}

\* The first date, or the second if the first is before the reference
\* instant.
OrRolled(first, second, reference) ==
  IF \E date \in first : date >= reference THEN first ELSE second

\* C18: calculateDueDate returns the given day of the month: for one-time
\* and monthly in the reference month, or in the next month if that date is
\* before the reference instant; for quarterly in the first month of the
\* quarter, or 3 months later; for half-yearly in January or July, or 6
\* months later; for yearly in April, or in April of the next year; for any
\* other code in the next month.
C18_DueDateIsTheDay ==
  calc.fn = "calculateDueDate" =>
    LET y == GetFullYear(calc.today)
        m == GetMonth(calc.today)
        d == calc.dueDateDay
        anchor == CASE calc.frequency \in {"one-time", "monthly"} -> m
                    [] calc.frequency = "quarterly" -> 3 * (m \div 3)
                    [] calc.frequency = "half-yearly" -> 6 * (m \div 6)
                    [] calc.frequency = "yearly" -> 3
                    [] OTHER -> m + 1
        period == CASE calc.frequency \in {"one-time", "monthly"} -> 1
                    [] calc.frequency = "quarterly" -> 3
                    [] calc.frequency = "half-yearly" -> 6
                    [] calc.frequency = "yearly" -> 12
                    [] OTHER -> 0
    IN  {calc.out} = IF period = 0 THEN TheDay(y, anchor, d)
                     ELSE OrRolled(TheDay(y, anchor, d),
                                   TheDay(y, anchor + period, d), calc.today)

StructureOps == {"createFeeStructure", "updateFeeStructure", "deleteFeeStructure"}

\* C19: the tenant of a FeeStructure row never changes, and a row is created
\* or modified only by the step of a fee-structure request whose user is of
\* the tenant of the row, before and after the step.
C19_StructureTenantIsolation ==
  [][\A f \in DOMAIN structures' :
       /\ f \in DOMAIN structures => structures'[f].tenant = structures[f].tenant
       /\ (f \notin DOMAIN structures \/ structures'[f] # structures[f]) =>
            \E p \in Procs :
              /\ req[p].op \in StructureOps /\ req[p].fs = f
              /\ req[p].pc # "idle" /\ req'[p].pc = "idle"
              /\ structures'[f].tenant = req[p].tenant
              /\ f \in DOMAIN structures => structures[f].tenant = req[p].tenant]_vars

\* A fee structure of the tenant of row id holds the id in its category or
\* frequency field.
Referenced(id) ==
  \E f \in DOMAIN structures :
    /\ structures[f].tenant = catalog[id].tenant
    /\ structures[f][catalog[id].kind] = id

\* C20: deleteFeeCategory and deleteFeeFrequency remove no row with
\* isSystem = true and no row a fee structure of the same tenant references,
\* and a request of the tenant of a custom row that no fee structure
\* references removes it.
C20_CatalogDeletion ==
  [][\A id \in DOMAIN catalog :
       /\ id \notin DOMAIN catalog' => ~catalog[id].isSystem /\ ~Referenced(id)
       /\ ( /\ ~catalog[id].isSystem /\ ~Referenced(id)
            /\ \E p \in Procs :
                 /\ req[p].pc = "delete" /\ req'[p].pc = "idle"
                 /\ req[p].fs = id /\ req[p].tenant = catalog[id].tenant
                 /\ req[p].op = IF catalog[id].kind = "category"
                                THEN "deleteFeeCategory"
                                ELSE "deleteFeeFrequency" ) =>
            id \notin DOMAIN catalog']_vars

\* C27: whenever no request is in flight, the stored paidAmount of every
\* assignment is the sum of the amounts of the FeePayment rows that
\* reference it.
C27_PaidAmountIsSumOfPayments ==
  (\A p \in Procs : req[p].pc = "idle") =>
    \A i \in DOMAIN assignments :
      assignments[i].paidAmount = SumOfPayments(i, 1)

\* C29: the insert of a recordFeePayment request fails on a duplicate
\* receipt number exactly when a FeePayment row of the tenant of the request
\* holds that number: the rows of the other tenants make no difference to
\* the outcome nor to the row written.
C29_OtherTenantsPaymentsIgnored ==
  [][\A p \in Procs :
       ( /\ req[p].op = "recordFeePayment"
         /\ req[p].pc = "insert" /\ req'[p].pc # "insert" ) =>
           LET number == ReceiptNumber(GetFullYear(now), req[p].count)
               own == {i \in DOMAIN payments :
                         payments[i].tenant = req[p].tenant}
               taken == \E i \in own : payments[i].receiptNumber = number
           IN  /\ taken => resp'.res = "400:E11000" /\ payments' = payments
               /\ ~taken =>
                    /\ req'[p].pc = "save"
                    /\ Len(payments') = Len(payments) + 1
                    /\ payments'[Len(payments')].tenant = req[p].tenant
                    /\ payments'[Len(payments')].receiptNumber = number]_vars

\* C28: the fee structure of every FeeAssignment that is created is active
\* when the assignment is created.
C28_NoAssignmentOfInactiveStructure ==
  [][Len(assignments') > Len(assignments) =>
       structures[assignments'[Len(assignments')].feeStructure].isActive]_vars

\* C26: the dueDate of every FeeAssignment that is created is the result of
\* calculateDueDate for the code of the FeeFrequency row that the frequency
\* field of its fee structure refers to, and the due day of the structure.
C26_DueDateOfFrequencyCode ==
  [][Len(assignments') > Len(assignments) =>
       LET created == assignments'[Len(assignments')]
           feeStructure == structures[created.feeStructure]
       IN  created.dueDate =
             CalculateDueDate(catalog[feeStructure.frequency].code,
                              feeStructure.dueDate, now)]_vars

\* The FeeAssignment rows of a student.
AssignmentsOf(student) ==
  {i \in DOMAIN assignments : assignments[i].student = student}

\* C24: when autoAssignClassFees throws during createStudent, no stored
\* assignment changes or goes, those the call had created included, and the
\* request then commits the student and answers 201.
C24_ThrowKeepsStudentAndBatch ==
  [][\A p \in Procs :
       /\ ( /\ req[p].op = "createStudent"
            /\ req[p].pc \in {"find", "exists", "create"}
            /\ req'[p].pc = "caught" ) =>
              /\ assignments' = assignments
              /\ \A i \in Range(req[p].created) :
                   i \in DOMAIN assignments' /\ assignments'[i].student = req[p].student
       /\ ( /\ req[p].op = "createStudent" /\ req[p].pc = "caught"
            /\ req'[p] # req[p] ) =>
              /\ resp'.op = "createStudent" /\ resp'.res = "201"
              /\ req[p].student \in DOMAIN students'
              /\ students'[req[p].student].isActive
              /\ assignments' = assignments]_vars

\* C24, witness: the student of a class with two active fee structures is
\* stored and the request has answered 201, with the assignment of the first
\* structure only.
C24_Witness ==
  /\ resp.op = "createStudent" /\ resp.res = "201"
  /\ NewStudentId \in DOMAIN students
  /\ Len(ClassStructures(students[NewStudentId].tenant,
                         students[NewStudentId].class, StructureIds)) = 2
  /\ Cardinality(AssignmentsOf(NewStudentId)) = 1
  /\ resp.created = <<1>>

\* C30: when createStudent with feeDiscount.amount > 0 answers after its
\* autoAssignClassFees call has returned the assignments it created (none of
\* its awaits failed), every assignment of the student is stored with that
\* discount and finalAmount = totalAmount - discount.
C30_AdmissionDiscountStored ==
  [][\A p \in Procs :
       ( /\ req[p].op = "createStudent" /\ req'[p].pc = "idle"
         /\ resp'.res = "201"
         /\ req[p].queue = <<>> /\ req[p].created # <<>>
         /\ req[p].discount > 0 ) =>
           \A i \in {k \in DOMAIN assignments' :
                        assignments'[k].student = req[p].student} :
             /\ assignments'[i].discount = req[p].discount
             /\ assignments'[i].finalAmount =
                  assignments'[i].totalAmount - req[p].discount]_vars

\* C25: deleteClass sets no assignment with paidAmount >= 1 to cancelled,
\* changes nothing of an assignment but its status, to cancelled, and
\* changes no assignment when it is rejected.
C25_DeleteClassCancelsUnpaidOnly ==
  [][resp'.op = "deleteClass" /\ resp' # resp =>
       /\ DOMAIN assignments' = DOMAIN assignments
       /\ \A i \in DOMAIN assignments :
            \/ assignments'[i] = assignments[i]
            \/ /\ assignments'[i] = [assignments[i] EXCEPT !.status = CANCELLED]
               /\ assignments[i].paidAmount < 1
       /\ resp'.res # "200" => assignments' = assignments]_vars

\* C25, witness: deleteClass has answered 200 and an assignment of a
\* student of the deleted class, stored as overdue with paidAmount >= 1, is
\* not cancelled.
C25_Witness ==
  /\ resp.op = "deleteClass" /\ resp.res = "200"
  /\ \E i \in DOMAIN assignments :
       /\ ~classes[students[assignments[i].student].class].isActive
       /\ assignments[i].paidAmount >= 1 /\ assignments[i].status = OVERDUE

\* C21: no step changes the name, description, displayOrder or
\* monthsInterval of a category or frequency row with isSystem = true.
C21_SystemRowsKeepTheirFields ==
  [][\A id \in DOMAIN catalog \cap DOMAIN catalog' :
       catalog[id].isSystem =>
         /\ catalog'[id].name = catalog[id].name
         /\ catalog'[id].description = catalog[id].description
         /\ catalog'[id].displayOrder = catalog[id].displayOrder
         /\ catalog'[id].monthsInterval = catalog[id].monthsInterval]_vars

\* Every tenant has none or all of the default rows of each kind, as system
\* rows, in the collection given.
NoneOrAll(collection) ==
  \A tenant \in Tenants, kind \in {"category", "frequency"} :
    LET system == {id \in DOMAIN collection :
                     /\ collection[id].tenant = tenant
                     /\ collection[id].kind = kind
                     /\ collection[id].isSystem}
    IN  \/ system = {}
        \/ /\ Cardinality(system) = Len(DefaultRows(kind))
           /\ \A k \in DOMAIN DefaultRows(kind) :
                \E id \in system : collection[id].code = DefaultRows(kind)[k].code

\* C22: after every step each tenant has none or all of the eight default
\* categories and none or all of the five default frequencies, and a step
\* of an initialisation request of a tenant that has system rows of the
\* kind changes no row and is no success.
C22_DefaultsAllOrNothing ==
  [][/\ NoneOrAll(catalog')
     /\ \A p \in Procs :
          ( /\ req[p].op \in {"initializeDefaultCategories",
                               "initializeDefaultFrequencies"}
            /\ req[p].pc \in {"count", "create"}
            /\ req'[p] # req[p]
            /\ \E id \in DOMAIN catalog :
                 /\ catalog[id].tenant = req[p].tenant
                 /\ catalog[id].isSystem
                 /\ catalog[id].kind =
                      IF req[p].op = "initializeDefaultCategories"
                      THEN "category" ELSE "frequency" ) =>
              /\ catalog' = catalog
              /\ req'[p].pc = "idle"
              /\ resp'.res \in {"400:initialized", "400:error"}]_vars

\* C22, witness: a tenant has its eight default categories and a further
\* call of initializeDefaultCategories has been refused, while the other
\* tenant has none.
C22_Witness ==
  /\ resp.op = "initializeDefaultCategories" /\ resp.res = "400:initialized"
  /\ \E tenant \in Tenants :
       /\ Cardinality(SystemRows(tenant, "category")) = 8
       /\ \A other \in Tenants \ {tenant} : SystemRows(other, "category") = {}
       /\ \A p \in Procs : req[p].pc = "idle"

\* C23: for every active class c and every fee structure s of its tenant,
\* c is in s.classes if and only if s is in c.feeStructure.
C23_BindingsAgree ==
  \A c \in DOMAIN classes, s \in DOMAIN structures :
    ( /\ classes[c].isActive
      /\ structures[s].tenant = classes[c].tenant ) =>
        (c \in structures[s].classes <=> s \in classes[c].feeStructure)

====
